---- MODULE Spec2Model ----
(***************************************************************************)
(* A model of turbodl: the range partitioners (utils.generate_chunk_ranges *)
(* and functions.get_chunk_ranges), the download call of                   *)
(* downloader.TurboDL with its direct and RAM-buffered workers, and the    *)
(* download call of core.TurboDL with its cleanup and signal handler.      *)
(*                                                                         *)
(* Byte quantities of the partitioner specification are real byte counts.  *)
(* The download specifications model files of a few bytes: every byte of   *)
(* the remote file is one model byte, and a network read delivers at most  *)
(* MaxBlock of them.                                                       *)
(***************************************************************************)
EXTENDS Integers, Sequences, FiniteSets, TLC

VARIABLES
    \* ---- partitioner specification
    pSize,          \* size_bytes / total_size handed to the partitioner
    pConn,          \* max_connections handed to the partitioner
    pFn,            \* which partitioner has been applied ("none" before)
    pRanges,        \* the list it returned
    \* ---- download call of downloader.TurboDL
    pc,             \* position of the calling (main) thread in download()
    use_ram_buffer, \* resolved use_ram_buffer argument
    total_size,     \* size reported by the probe
    max_connections,\* self._max_connections
    ranges,         \* get_chunk_ranges(...) of the running fetch
    workers,        \* one record per submitted worker task
    chunk_buffers,  \* buffered mode: the ChunkBuffer of each worker
    write_positions,\* buffered mode: bytes each worker has written so far
    write_lock,     \* 0 when free, else the worker holding write_lock
    joinIdx,        \* index of the future whose result() the caller awaits
    pending,        \* exception travelling through the executor's __exit__
    fileExists,     \* the output path names a file
    file,           \* its content, a sequence of bytes
    output_path,    \* the instance's public output_path attribute
    result,         \* how the call ended
    expected_hash,  \* expected_hash argument (NoHash when None)
    file_hash,      \* hexdigest computed by the verification (NoHash before)
    faults,         \* number of abnormal responses served so far
    \* ---- download call of core.TurboDL (shares the file and the outcome)
    priv_output_path, \* self._output_path: "None" or the path it names
    client_closed,  \* self._http_client has been closed
    progress,       \* bytes the fetch has written so far
    calls,          \* download calls made on the instance
    exit_status,    \* NotExited, or the status the process exited with
    interrupted_at, \* where the call was when the user interrupted it
    cleanups,       \* _cleanup() executions since the running call began
    \* ---- utils.fetch_file_info (the probe)
    prPc,           \* position of the probe call
    prAttempt,      \* attempts tenacity has started
    prHead,         \* how the HEAD request of the current attempt ended
    prGet,          \* how the fallback GET of the current attempt ended
    prHeaders,      \* r_headers: Content-Range and Content-Length values
    prResult,       \* what the call returned or raised
    prSize,         \* the size of the returned RemoteFileInfo
    \* ---- utils.has_available_space
    spKind,         \* what the path names: "dir", "file" or "missing"
    spParentExists, \* the parent directory of the path exists
    spFree,         \* free bytes of the filesystem of each ancestor
    spSize,         \* required_size_bytes
    spOut,          \* "none" before the call, then what it returned
    \* ---- the choice of the output file name (overwrite handling)
    nmPc,           \* position in the overwrite handling
    nmOverwrite,    \* the overwrite argument
    nmExisting,     \* names that exist in the output directory
    nmPath,         \* output_path, a name
    nmCounter,      \* counter
    \* ---- utils.validate_headers
    hdUser,         \* the headers argument, a dict (a function on its keys)
    hdOut,          \* "none", "returned" or the error raised
    hdFinal,        \* the dict returned
    \* ---- TurboDL.__init__ (core and downloader)
    ctType,         \* type of the max_connections argument
    ctInt,          \* its value when it is an int
    ctStr,          \* its value when it is a str
    ctSpeed,        \* the connection speed argument
    ctOut,          \* "none", "constructed" or the error raised
    ctBy,           \* the class that was constructed
    \* ---- the sizing model (calculate_max_connections, calculate_connections)
    szMb,           \* size_mb, in thousandths
    szSpeed,        \* connection speed in Mbps
    szFn,           \* the function that was called
    szOut,          \* what it returned (0 before the call)
    szAgain,        \* what a second call with the same arguments returned
    \* ---- where core.TurboDL.download puts the file
    opPc,           \* position in the download call
    opKind,         \* what the output_path argument names
    opOverwrite,    \* the overwrite argument
    opExisting,     \* the paths that name a file
    opResponse,     \* what the probe's response says about the file name
    opFilename,     \* remote_file_info.filename
    opPath,         \* self._output_path
    opCounter,      \* counter of the overwrite handling
    opWritten,      \* the path the download created its file at
    opAttr,         \* self.output_path
    \* ---- the tenacity retry of a ranged request
    rtFn,           \* the retried function
    rtPc,           \* "calling", "returned" or "raised"
    rtLog,          \* how each attempt so far ended, in order
    rtResult,       \* what the call returned or raised
    \* ---- the hash verification of a downloaded file
    vhFn,           \* the verifying code: utils.verify_hash or the end of downloader's download
    vhType,         \* the hash_type argument
    vhFile,         \* the content of the file that is verified
    vhExpected,     \* the expected_hash argument
    vhResult,       \* "pending", then what the verification returned or raised
    \* ---- max_connections='auto' over the download calls of one instance
    acArg,          \* the max_connections argument of the constructor
    acMax,          \* self._max_connections
    acSpeed,        \* self._connection_speed_mbps
    acSize,         \* the probed size of the latest call's file
    acUsed,         \* the connection count the latest call partitioned with
    acCalls,        \* download calls made so far
    \* ---- the headers of the HTTP client over the download calls of one instance
    ssClient,       \* self._http_client.headers, keyed in lower case
    ssUser,         \* the headers argument of the latest call
    ssOut,          \* how the latest call's header step ended
    ssCalls         \* download calls made so far

partVars == <<pSize, pConn, pFn, pRanges>>
dlVars == <<pc, use_ram_buffer, total_size, max_connections, ranges, workers,
            chunk_buffers, write_positions, write_lock, joinIdx, pending, fileExists, file, output_path,
            result, expected_hash, file_hash, faults>>
coreOnly == <<priv_output_path, client_closed, progress, calls, exit_status,
              interrupted_at, cleanups>>
probeVars == <<prPc, prAttempt, prHead, prGet, prHeaders, prResult, prSize>>
spaceVars == <<spKind, spParentExists, spFree, spSize, spOut>>
nameVars == <<nmPc, nmOverwrite, nmExisting, nmPath, nmCounter>>
headerVars == <<hdUser, hdOut, hdFinal>>
ctorVars == <<ctType, ctInt, ctStr, ctSpeed, ctOut, ctBy>>
sizingVars == <<szMb, szSpeed, szFn, szOut, szAgain>>
outVars == <<opPc, opKind, opOverwrite, opExisting, opResponse, opFilename,
            opPath, opCounter, opWritten, opAttr>>
retryVars == <<rtFn, rtPc, rtLog, rtResult>>
verifyVars == <<vhFn, vhType, vhFile, vhExpected, vhResult>>
autoVars == <<acArg, acMax, acSpeed, acSize, acUsed, acCalls>>
sessionVars == <<ssClient, ssUser, ssOut, ssCalls>>
auxVars == <<probeVars, spaceVars, nameVars, headerVars, ctorVars, sizingVars,
            outVars,
            retryVars,
            verifyVars,
            autoVars,
            sessionVars>>
\* everything but the variables of one subsystem
butProbe == <<partVars, dlVars, coreOnly, spaceVars, nameVars, headerVars, ctorVars, sizingVars, outVars,
    retryVars,
    verifyVars,
    autoVars,
    sessionVars>>
butSpace == <<partVars, dlVars, coreOnly, probeVars, nameVars, headerVars, ctorVars, sizingVars, outVars,
    retryVars,
    verifyVars,
    autoVars,
    sessionVars>>
butName == <<partVars, dlVars, coreOnly, probeVars, spaceVars, headerVars, ctorVars, sizingVars, outVars,
    retryVars,
    verifyVars,
    autoVars,
    sessionVars>>
butHeaders == <<partVars, dlVars, coreOnly, probeVars, spaceVars, nameVars, ctorVars, sizingVars, outVars,
    retryVars,
    verifyVars,
    autoVars,
    sessionVars>>
butCtor == <<partVars, dlVars, coreOnly, probeVars, spaceVars, nameVars, headerVars, sizingVars, outVars,
    retryVars,
    verifyVars,
    autoVars,
    sessionVars>>
butSizing == <<partVars, dlVars, coreOnly, probeVars, spaceVars, nameVars, headerVars, ctorVars,
              outVars,
    retryVars,
    verifyVars,
    autoVars,
    sessionVars>>
butOut == <<partVars, dlVars, coreOnly, probeVars, spaceVars, nameVars, headerVars, ctorVars,
           sizingVars,
    retryVars,
    verifyVars,
    autoVars,
    sessionVars>>
butRetry == <<partVars, dlVars, coreOnly,
    probeVars, spaceVars, nameVars, headerVars, ctorVars, sizingVars, outVars,
    verifyVars,
    autoVars,
    sessionVars>>
butVerify == <<partVars, dlVars, coreOnly,
    probeVars, spaceVars, nameVars, headerVars, ctorVars, sizingVars, outVars, retryVars,
    autoVars,
    sessionVars>>
butAuto == <<partVars, dlVars, coreOnly,
    probeVars, spaceVars, nameVars, headerVars, ctorVars, sizingVars, outVars, retryVars, verifyVars,
    sessionVars>>
butSession == <<partVars, dlVars, coreOnly,
    probeVars, spaceVars, nameVars, headerVars, ctorVars, sizingVars, outVars, retryVars, verifyVars, autoVars>>
vars == <<partVars, dlVars, coreOnly, auxVars>>

----------------------------------------------------------------------------
(* Arithmetic helpers *)

Min(a, b) == IF a <= b THEN a ELSE b
Max(a, b) == IF a >= b THEN a ELSE b
\* math.ceil(a / b) for a >= 0, b >= 1
ceil_div(a, b) == (a + b - 1) \div b

----------------------------------------------------------------------------
(* constants.py *)

ONE_MB == 1024 * 1024
ONE_GB == 1024 * 1024 * 1024
MIN_CHUNK_SIZE == 16 * 1024 * 1024
MAX_CHUNK_SIZE == 256 * 1024 * 1024
MAX_CONNECTIONS == 24
MIN_CONNECTIONS == 2
\* core.TurboDL.__init__ accepts an explicit max_connections in 1..32
MAX_CONNECTIONS_ARG == 32

----------------------------------------------------------------------------
(* Bounds of the partitioner specification *)

\* sizes are m * MIN_CHUNK_SIZE + d, m in 0..MaxSizeMult, d in -MaxSizeDelta..MaxSizeDelta
MaxSizeMult == 33
MaxSizeDelta == 1

SizeDomain ==
    { s \in { m * MIN_CHUNK_SIZE + d : m \in 0..MaxSizeMult,
                                       d \in (0 - MaxSizeDelta)..MaxSizeDelta } : s >= 0 }

----------------------------------------------------------------------------
(* utils.generate_chunk_ranges *)

\* the chunk size without the MIN/MAX clamp (a mutant of generate_chunk_size)
generate_chunk_size_unclamped(size_bytes, conn) == ceil_div(size_bytes, conn)

generate_chunk_size(size_bytes, conn) ==
    Max(MIN_CHUNK_SIZE, Min(ceil_div(size_bytes, conn), MAX_CHUNK_SIZE))

RECURSIVE generate_loop(_, _, _, _)
generate_loop(chunk_size, start, remaining_bytes, acc) ==
    IF remaining_bytes > 0
    THEN LET current_chunk == Min(chunk_size, remaining_bytes)
             end == start + current_chunk - 1
         IN  generate_loop(chunk_size, end + 1, remaining_bytes - current_chunk,
                           Append(acc, <<start, end>>))
    ELSE acc

\* a partitioner whose next range starts at the previous end (a mutant)
RECURSIVE overlap_loop(_, _, _, _)
overlap_loop(chunk_size, start, remaining_bytes, acc) ==
    IF remaining_bytes > 0
    THEN LET current_chunk == Min(chunk_size, remaining_bytes)
             end == start + current_chunk - 1
         IN  overlap_loop(chunk_size, end, remaining_bytes - current_chunk,
                          Append(acc, <<start, end>>))
    ELSE acc

generate_chunk_ranges_overlap(size_bytes, conn) ==
    overlap_loop(generate_chunk_size(size_bytes, conn), 0, size_bytes, <<>>)

generate_chunk_ranges(size_bytes, conn) ==
    generate_loop(generate_chunk_size(size_bytes, conn), 0, size_bytes, <<>>)

----------------------------------------------------------------------------
(* functions.get_chunk_ranges, for an integer max_connections *)

RECURSIVE get_loop(_, _, _, _)
get_loop(chunk_size, start, remaining, acc) ==
    IF remaining > 0
    THEN LET current_chunk == Min(chunk_size, remaining)
             end == start + current_chunk - 1
         IN  get_loop(chunk_size, end + 1, remaining - current_chunk,
                      Append(acc, <<start, end>>))
    ELSE acc

get_chunk_ranges(size, conn) ==
    IF size = 0
    THEN << <<0, 0>> >>
    ELSE get_loop(ceil_div(size, conn), 0, size, <<>>)

----------------------------------------------------------------------------
(* Bounds of the download specifications *)

MaxSize == 4        \* largest remote file, in bytes
MaxConn == 2        \* largest explicit max_connections
MaxBlock == 2       \* most bytes one iter_bytes() step yields
MaxFaults == 1      \* most responses that end early or with an error

----------------------------------------------------------------------------
(* The remote file and the local file system *)

\* the remote byte at absolute offset k (never 0, the filler of a hole)
RemoteByte(k) == k + 1
RemoteSlice(from, n) == [i \in 1..n |-> RemoteByte(from + i - 1)]
RemoteFile(size) == RemoteSlice(0, size)
Zeros(n) == [i \in 1..n |-> 0]

\* f.seek(pos); f.write(data) on a file of content f: a write past the end
\* extends the file, the gap reads as zeros
WriteAt(f, pos, data) ==
    [i \in 1..Max(Len(f), pos + Len(data)) |->
        IF i > pos /\ i <= pos + Len(data) THEN data[i - pos]
        ELSE IF i <= Len(f) THEN f[i] ELSE 0]

\* a digest: a polynomial hash of the content, modulo HashMod
HashMod == 251
NoHash == 0 - 1
RECURSIVE hexdigest(_)
hexdigest(f) ==
    IF f = <<>> THEN 7
    ELSE (hexdigest(SubSeq(f, 1, Len(f) - 1)) * 31 + f[Len(f)]) % HashMod

----------------------------------------------------------------------------
(* Worker tasks of downloader.TurboDL *)

\* the request of a worker for (start, end): the Range header is sent only
\* when end > 0; without it the server answers with the whole file
request_from(start, end) == IF end > 0 THEN start ELSE 0
request_len(start, end, size) == IF end > 0 THEN end - start + 1 ELSE size

NewWorker(rng) ==
    [ pc        |-> "submitted",
      start     |-> rng[1],      \* the worker's local start, its write cursor
      end       |-> rng[2],
      req_from  |-> 0,           \* first remote offset the response holds
      req_len   |-> 0,           \* bytes the request asks for
      resp_len  |-> 0,           \* bytes the response delivers
      resp_tail |-> "eof",       \* "eof": ends normally, "error": raises
      rpos      |-> 0,           \* bytes read from the response so far
      data      |-> <<>>,        \* the block iter_bytes() yielded, until consumed
      written   |-> <<>>,        \* every byte written to the file, in order
      attempts  |-> 0 ]          \* client.stream() calls the worker has made

Terminal(w) == workers[w].pc \in {"done", "failed"}
AllTerminal == \A w \in DOMAIN workers : Terminal(w)
\* the worker threads run while the call fetches or unwinds, and go on when
\* the call has left them behind ("left": see DlShutdownInterrupted)
Running == pc \in {"fetching", "unwinding", "left"}

----------------------------------------------------------------------------
(* Values of the variables a specification does not use *)

PartIdle ==
    /\ pSize = 0 /\ pConn = 1 /\ pFn = "off" /\ pRanges = <<>>

DlIdle ==
    /\ pc = "off" /\ use_ram_buffer = FALSE /\ total_size = 0
    /\ max_connections = 1 /\ ranges = <<>> /\ workers = <<>>
    /\ chunk_buffers = <<>> /\ write_positions = <<>>
    /\ write_lock = 0 /\ joinIdx = 0 /\ pending = "none"
    /\ fileExists = FALSE /\ file = <<>> /\ output_path = "None"
    /\ result = "none" /\ expected_hash = NoHash /\ file_hash = NoHash
    /\ faults = 0

NotExited == 0 - 1

CoreIdle ==
    /\ priv_output_path = "None" /\ client_closed = FALSE /\ progress = 0
    /\ calls = 0 /\ exit_status = NotExited /\ interrupted_at = "none"
    /\ cleanups = 0

\* a header the response does not carry
NoHeader == <<"absent">>

ProbeIdle ==
    /\ prPc = "off" /\ prAttempt = 0 /\ prHead = "none" /\ prGet = "none"
    /\ prHeaders = [content_range |-> NoHeader, content_length |-> NoHeader,
                    other |-> FALSE]
    /\ prResult = "none" /\ prSize = 0

SpaceIdle ==
    /\ spKind = "off" /\ spParentExists = TRUE
    /\ spFree = [path |-> 0, parent |-> 0, grand |-> 0]
    /\ spSize = 0 /\ spOut = "none"

NameIdle ==
    /\ nmPc = "off" /\ nmOverwrite = TRUE /\ nmExisting = {}
    /\ nmPath = <<>> /\ nmCounter = 0

HeadersIdle == hdUser = <<>> /\ hdOut = "off" /\ hdFinal = <<>>

CtorIdle ==
    /\ ctType = "off" /\ ctInt = 0 /\ ctStr = "" /\ ctSpeed = 0
    /\ ctOut = "none" /\ ctBy = "none"

SizingIdle ==
    /\ szMb = 0 /\ szSpeed = 0 /\ szFn = "off" /\ szOut = 0 /\ szAgain = 0

\* a path: the directories leading to it and its name, a stem and a suffix
NoPath == [dirs |-> <<>>, name |-> <<>>]

OutIdle ==
    /\ opPc = "off" /\ opKind = "off" /\ opOverwrite = TRUE /\ opExisting = {}
    /\ opResponse = "none" /\ opFilename = "none" /\ opPath = NoPath
    /\ opCounter = 0 /\ opWritten = NoPath /\ opAttr = <<>>

RetryIdle ==
    /\ rtFn = "off"
    /\ rtPc = "off"
    /\ rtLog = <<>>
    /\ rtResult = "none"

VerifyIdle ==
    /\ vhFn = "off"
    /\ vhType = "off"
    /\ vhFile = <<>>
    /\ vhExpected = NoHash
    /\ vhResult = "off"

AutoIdle ==
    /\ acArg = [auto |-> FALSE, n |-> 0]
    /\ acMax = [auto |-> FALSE, n |-> 0]
    /\ acSpeed = 0
    /\ acSize = 0
    /\ acUsed = 0
    /\ acCalls = 0

SessionIdle ==
    /\ ssClient = <<>>
    /\ ssUser = <<>>
    /\ ssOut = "off"
    /\ ssCalls = 0

\* every subsystem outside the download calls is idle, but the one named
AuxIdleBut(x) ==
    /\ (x = "probe" \/ ProbeIdle)
    /\ (x = "space" \/ SpaceIdle)
    /\ (x = "name" \/ NameIdle)
    /\ (x = "headers" \/ HeadersIdle)
    /\ (x = "ctor" \/ CtorIdle)
    /\ (x = "sizing" \/ SizingIdle)
    /\ (x = "out" \/ OutIdle)
    /\ (x = "retry" \/ RetryIdle)
    /\ (x = "verify" \/ VerifyIdle)
    /\ (x = "auto" \/ AutoIdle)
    /\ (x = "session" \/ SessionIdle)

AuxIdle == AuxIdleBut("none")

----------------------------------------------------------------------------
(* The partitioner specification: apply a partitioner to drawn inputs *)

InitRanges ==
    /\ AuxIdle
    /\ DlIdle
    /\ CoreIdle
    /\ pSize \in SizeDomain
    /\ pConn \in 1..MAX_CONNECTIONS_ARG
    /\ pFn = "none"
    /\ pRanges = <<>>

CallGenerateChunkRanges ==
    /\ pFn = "none"
    /\ pFn' = "generate_chunk_ranges"
    /\ pRanges' = generate_chunk_ranges(pSize, pConn)
    /\ UNCHANGED <<pSize, pConn, dlVars, coreOnly, auxVars>>

CallGetChunkRanges ==
    /\ pFn = "none"
    /\ pFn' = "get_chunk_ranges"
    /\ pRanges' = get_chunk_ranges(pSize, pConn)
    /\ UNCHANGED <<pSize, pConn, dlVars, coreOnly, auxVars>>

NextRanges == CallGenerateChunkRanges \/ CallGetChunkRanges

SpecRanges == InitRanges /\ [][NextRanges]_vars

----------------------------------------------------------------------------
(* downloader.TurboDL.download: the calling thread *)

InitDl ==
    /\ AuxIdle
    /\ PartIdle
    /\ CoreIdle
    /\ pc = "start"
    /\ max_connections \in 1..MaxConn
    /\ use_ram_buffer = FALSE /\ total_size = 0
    /\ ranges = <<>> /\ workers = <<>>
    /\ chunk_buffers = <<>> /\ write_positions = <<>>
    /\ write_lock = 0 /\ joinIdx = 0 /\ pending = "none"
    /\ fileExists = FALSE /\ file = <<>> /\ output_path = "None"
    /\ result = "none" /\ expected_hash = NoHash /\ file_hash = NoHash
    /\ faults = 0

\* lines 501-535: argument checks, use_ram_buffer resolution, the probe
DlFetchFileInfo ==
    /\ pc = "start"
    /\ \E size \in 1..MaxSize, rb \in BOOLEAN :
          /\ total_size' = size
          /\ use_ram_buffer' = rb
    /\ pc' = "probed"
    /\ UNCHANGED <<partVars, auxVars, coreOnly, max_connections, ranges, workers, chunk_buffers, write_positions, write_lock,
                   joinIdx, pending, fileExists, file, output_path, result,
                   expected_hash, file_hash, faults>>

\* lines 523-535 and functions.fetch_file_info: the probe finds no size.
\* It returns None after a RemoteProtocolError (has_unknown_info: the space
\* check is skipped) or size 0 when the response has no Content-Length
DlFetchFileInfoNoSize ==
    /\ pc = "start"
    /\ total_size' = 0
    /\ \E has_unknown_info \in BOOLEAN :
          pc' = IF has_unknown_info THEN "checked" ELSE "probed"
    /\ use_ram_buffer' \in BOOLEAN
    /\ UNCHANGED <<partVars, auxVars, coreOnly, max_connections, ranges, workers,
                   chunk_buffers, write_positions, write_lock, joinIdx,
                   pending, fileExists, file, output_path, result,
                   expected_hash, file_hash, faults>>

\* line 319: the probe raises OnlineRequestError, before the try block
DlFetchFileInfoRaises ==
    /\ pc = "start"
    /\ pc' = "raised"
    /\ result' = "OnlineRequestError"
    /\ UNCHANGED <<partVars, auxVars, coreOnly, use_ram_buffer, total_size, max_connections,
                   ranges, workers, chunk_buffers, write_positions, write_lock, joinIdx, pending, fileExists,
                   file, output_path, expected_hash, file_hash, faults>>

\* lines 537-539: the free-space check, before the try block
DlSpaceCheck ==
    /\ pc = "probed"
    /\ \E has_available_space \in BOOLEAN :
          IF has_available_space
          THEN pc' = "checked" /\ result' = result
          ELSE pc' = "raised" /\ result' = "InsufficientSpaceError"
    /\ UNCHANGED <<partVars, auxVars, coreOnly, use_ram_buffer, total_size, max_connections,
                   ranges, workers, chunk_buffers, write_positions, write_lock, joinIdx, pending, fileExists,
                   file, output_path, expected_hash, file_hash, faults>>

\* lines 558-578: pre-allocation (open "wb" and truncate) or touch
DlAllocate ==
    /\ pc = "checked"
    /\ \E pre_allocate_space \in BOOLEAN :
          IF pre_allocate_space /\ total_size > 0
          THEN file' = Zeros(total_size)
          ELSE file' = IF fileExists THEN file ELSE <<>>
    /\ fileExists' = TRUE
    /\ output_path' = "file"
    /\ pc' = "allocated"
    /\ UNCHANGED <<partVars, auxVars, coreOnly, use_ram_buffer, total_size, max_connections,
                   ranges, workers, chunk_buffers, write_positions, write_lock, joinIdx, pending, result,
                   expected_hash, file_hash, faults>>

\* lines 570/573 raise (OSError): caught at 622, re-raised as DownloadError
DlAllocateRaises ==
    /\ pc = "checked"
    /\ pc' = "raised"
    /\ result' = "DownloadError"
    /\ UNCHANGED <<partVars, auxVars, coreOnly, use_ram_buffer, total_size, max_connections,
                   ranges, workers, chunk_buffers, write_positions, write_lock, joinIdx, pending, fileExists,
                   file, output_path, expected_hash, file_hash, faults>>

\* lines 444-448 (direct) and 351-375 (buffered): one task per range, all
\* started at once by ThreadPoolExecutor(max_workers=len(ranges))
DlSubmit ==
    /\ pc = "allocated"
    /\ total_size > 0
    /\ ranges' = get_chunk_ranges(total_size, max_connections)
    /\ workers' = [i \in 1..Len(ranges') |-> NewWorker(ranges'[i])]
    /\ joinIdx' = 1
    /\ pc' = "fetching"
    /\ chunk_buffers' = <<>>
    /\ write_positions' = [i \in 1..Len(ranges') |-> 0]
    /\ UNCHANGED <<partVars, auxVars, coreOnly, use_ram_buffer, total_size, max_connections,
                   write_lock, pending, fileExists, file, output_path, result,
                   expected_hash, file_hash, faults>>

\* lines 611-612 and _download_chunk (188-237): with total_size = 0 the body
\* is fetched by one request without Range and written with write_bytes
DlDownloadChunk ==
    /\ pc = "allocated"
    /\ total_size = 0
    /\ \E body_len \in 0..MaxSize : file' = RemoteFile(body_len)
    /\ pc' = "fetched"
    /\ UNCHANGED <<partVars, auxVars, coreOnly, use_ram_buffer, total_size,
                   max_connections, ranges, workers, chunk_buffers,
                   write_positions, write_lock, joinIdx, pending, fileExists,
                   output_path, result, expected_hash, file_hash, faults>>

\* _download_chunk raises on each of its 5 attempts (line 188)
DlDownloadChunkRaises ==
    /\ pc = "allocated"
    /\ total_size = 0
    /\ pending' = "DownloadError"
    /\ pc' = "unwinding"
    /\ UNCHANGED <<partVars, auxVars, coreOnly, use_ram_buffer, total_size,
                   max_connections, ranges, workers, chunk_buffers,
                   write_positions, write_lock, joinIdx, fileExists, file,
                   output_path, result, expected_hash, file_hash, faults>>

\* lines 451-452 / 376: future.result() of a task that finished normally
CoordJoin ==
    /\ pc = "fetching"
    /\ joinIdx <= Len(workers)
    /\ workers[joinIdx].pc = "done"
    /\ joinIdx' = joinIdx + 1
    /\ UNCHANGED <<partVars, auxVars, coreOnly, pc, use_ram_buffer, total_size, max_connections,
                   ranges, workers, chunk_buffers, write_positions, write_lock, pending, fileExists, file,
                   output_path, result, expected_hash, file_hash, faults>>

\* future.result() re-raises the DownloadError of a failed task; the with
\* block's __exit__ then runs shutdown(wait=True)
CoordJoinRaises ==
    /\ pc = "fetching"
    /\ joinIdx <= Len(workers)
    /\ workers[joinIdx].pc = "failed"
    /\ pending' = "DownloadError"
    /\ pc' = "unwinding"
    /\ UNCHANGED <<partVars, auxVars, coreOnly, use_ram_buffer, total_size, max_connections,
                   ranges, workers, chunk_buffers, write_positions, write_lock, joinIdx, fileExists, file,
                   output_path, result, expected_hash, file_hash, faults>>

\* every future has been awaited: the with block ends, the fetch is over
CoordAllJoined ==
    /\ pc = "fetching"
    /\ joinIdx > Len(workers)
    /\ pc' = "fetched"
    /\ UNCHANGED <<partVars, auxVars, coreOnly, use_ram_buffer, total_size, max_connections,
                   ranges, workers, chunk_buffers, write_positions, write_lock, joinIdx, pending, fileExists,
                   file, output_path, result, expected_hash, file_hash, faults>>

\* KeyboardInterrupt is raised in the calling thread while it waits in
\* future.result(); the with block's __exit__ runs shutdown(wait=True)
DlKeyboardInterrupt ==
    /\ pc = "fetching"
    /\ pending' = "KeyboardInterrupt"
    /\ pc' = "unwinding"
    /\ UNCHANGED <<partVars, auxVars, coreOnly, use_ram_buffer, total_size, max_connections,
                   ranges, workers, chunk_buffers, write_positions, write_lock, joinIdx, fileExists, file,
                   output_path, result, expected_hash, file_hash, faults>>

\* lines 617-621: shutdown(wait=True) has returned; unlink and return
DlExceptKeyboardInterrupt ==
    /\ pc = "unwinding"
    /\ pending = "KeyboardInterrupt"
    /\ AllTerminal
    /\ fileExists' = FALSE
    /\ file' = <<>>
    /\ output_path' = "None"
    /\ pc' = "returned"
    /\ result' = "None"
    /\ UNCHANGED <<partVars, auxVars, coreOnly, use_ram_buffer, total_size, max_connections,
                   ranges, workers, chunk_buffers, write_positions, write_lock, joinIdx, pending,
                   expected_hash, file_hash, faults>>

\* lines 622-624: shutdown(wait=True) has returned; raise DownloadError
DlExceptException ==
    /\ pc = "unwinding"
    /\ pending = "DownloadError"
    /\ AllTerminal
    /\ pc' = "raised"
    /\ result' = "DownloadError"
    /\ UNCHANGED <<partVars, auxVars, coreOnly, use_ram_buffer, total_size, max_connections,
                   ranges, workers, chunk_buffers, write_positions, write_lock, joinIdx, pending, fileExists,
                   file, output_path, expected_hash, file_hash, faults>>

\* the digests a caller may pass: that of the remote file, or another one
ExpectedChoices(size) ==
    {NoHash, hexdigest(RemoteFile(size)), (hexdigest(RemoteFile(size)) + 1) % HashMod}

\* lines 628-645: hash verification
DlVerifyHash ==
    /\ pc = "fetched"
    /\ \E expected \in ExpectedChoices(total_size) :
          /\ expected_hash' = expected
          /\ IF expected = NoHash
             THEN /\ pc' = "returned" /\ result' = "None"
                  /\ UNCHANGED <<file_hash, fileExists, file, output_path>>
             ELSE /\ file_hash' = hexdigest(file)
                  /\ IF file_hash' # expected
                     THEN /\ fileExists' = FALSE /\ file' = <<>>
                          /\ output_path' = "None"
                          /\ pc' = "raised"
                          /\ result' = "HashVerificationError"
                     ELSE /\ pc' = "returned" /\ result' = "None"
                          /\ UNCHANGED <<fileExists, file, output_path>>
    /\ UNCHANGED <<partVars, auxVars, coreOnly, use_ram_buffer, total_size, max_connections,
                   ranges, workers, chunk_buffers, write_positions, write_lock, joinIdx, pending, faults>>

----------------------------------------------------------------------------
(* _download_direct.download_worker (lines 399-441) *)

\* what a server may answer to a request for req bytes: all of them, or --
\* while fewer than MaxFaults abnormal responses were served -- fewer bytes
\* followed by a normal end ("eof") or by an error raised to the worker
Responses(req) ==
    {<<req, "eof">>} \cup
    (IF faults < MaxFaults
     THEN (0..(req - 1)) \X {"eof", "error"}
     ELSE {})

\* the worker's record after the server answered its request with resp
Responded(me, resp) ==
    [me EXCEPT !.req_from = request_from(me.start, me.end),
               !.req_len = request_len(me.start, me.end, total_size),
               !.resp_len = resp[1], !.resp_tail = resp[2],
               !.attempts = me.attempts + 1,
               !.pc = IF resp[1] = 0 /\ resp[2] = "error"
                      THEN "failed" ELSE "iter"]

FaultsAfter(me, resp) ==
    IF resp = <<request_len(me.start, me.end, total_size), "eof">>
    THEN faults ELSE faults + 1

\* lines 414-424: send the request; raise_for_status or the transport may raise
DirectRequest(w) ==
    /\ Running
    /\ ~use_ram_buffer
    /\ workers[w].pc = "submitted"
    /\ \E resp \in Responses(request_len(workers[w].start, workers[w].end, total_size)) :
          /\ faults' = FaultsAfter(workers[w], resp)
          /\ workers' = [workers EXCEPT ![w] = Responded(workers[w], resp)]
    /\ UNCHANGED <<partVars, auxVars, coreOnly, pc, use_ram_buffer, total_size, max_connections,
                   ranges, chunk_buffers, write_positions, write_lock, joinIdx, pending, fileExists, file,
                   output_path, result, expected_hash, file_hash>>

\* lines 427 and 312: iter_bytes() yields the next block of the response
WorkerRead(w) ==
    /\ Running
    /\ workers[w].pc = "iter"
    /\ workers[w].rpos < workers[w].resp_len
    /\ LET me == workers[w]
       IN \E n \in 1..Min(MaxBlock, me.resp_len - me.rpos) :
            workers' = [workers EXCEPT ![w] =
                [me EXCEPT !.data = RemoteSlice(me.req_from + me.rpos, n),
                           !.rpos = me.rpos + n,
                           !.pc = "have"]]
    /\ UNCHANGED <<partVars, auxVars, coreOnly, pc, use_ram_buffer, total_size, max_connections,
                   ranges, chunk_buffers, write_positions, write_lock, joinIdx, pending, fileExists, file,
                   output_path, result, expected_hash, file_hash, faults>>

\* line 427: the response is exhausted and ends normally; the worker returns
DirectStreamEnd(w) ==
    /\ Running
    /\ ~use_ram_buffer
    /\ workers[w].pc = "iter"
    /\ workers[w].rpos = workers[w].resp_len
    /\ workers[w].resp_tail = "eof"
    /\ workers' = [workers EXCEPT ![w].pc = "done"]
    /\ UNCHANGED <<partVars, auxVars, coreOnly, pc, use_ram_buffer, total_size, max_connections,
                   ranges, chunk_buffers, write_positions, write_lock, joinIdx, pending, fileExists, file,
                   output_path, result, expected_hash, file_hash, faults>>

\* lines 427/439-441 and 312/329-331: the transport raises while the
\* response is read; the worker raises DownloadError
WorkerStreamRaises(w) ==
    /\ Running
    /\ workers[w].pc = "iter"
    /\ workers[w].rpos = workers[w].resp_len
    /\ workers[w].resp_tail = "error"
    /\ workers' = [workers EXCEPT ![w].pc = "failed"]
    /\ UNCHANGED <<partVars, auxVars, coreOnly, pc, use_ram_buffer, total_size, max_connections,
                   ranges, chunk_buffers, write_positions, write_lock, joinIdx, pending, fileExists, file,
                   output_path, result, expected_hash, file_hash, faults>>

\* a worker that enters the section without waiting for the lock (a mutant
\* of DirectAcquire)
DirectAcquireNoWait(w) ==
    /\ Running
    /\ ~use_ram_buffer
    /\ workers[w].pc = "have"
    /\ write_lock' = w
    /\ workers' = [workers EXCEPT ![w].pc = "locked"]
    /\ UNCHANGED <<partVars, auxVars, coreOnly, pc, use_ram_buffer, total_size, max_connections,
                   ranges, chunk_buffers, write_positions, joinIdx, pending, fileExists, file, output_path,
                   result, expected_hash, file_hash, faults>>

\* line 431: with write_lock
DirectAcquire(w) ==
    /\ Running
    /\ ~use_ram_buffer
    /\ workers[w].pc = "have"
    /\ write_lock = 0
    /\ write_lock' = w
    /\ workers' = [workers EXCEPT ![w].pc = "locked"]
    /\ UNCHANGED <<partVars, auxVars, coreOnly, pc, use_ram_buffer, total_size, max_connections,
                   ranges, chunk_buffers, write_positions, joinIdx, pending, fileExists, file, output_path,
                   result, expected_hash, file_hash, faults>>

\* a worker that seeks to the start of the file (a mutant of direct_seek)
direct_seek_zero(me) == 0

\* the position a direct worker writes its block at (line 433)
direct_seek(me) == me.start

\* lines 431-435: open "r+b" (raises when the file is gone), seek(start),
\* write(data), start += chunk_len; leaving the with block releases the lock
DirectWrite(w) ==
    /\ Running
    /\ workers[w].pc = "locked"
    /\ write_lock = w
    /\ write_lock' = 0
    /\ LET me == workers[w]
       IN IF fileExists
          THEN /\ file' = WriteAt(file, direct_seek(me), me.data)
               /\ workers' = [workers EXCEPT ![w] =
                     [me EXCEPT !.start = me.start + Len(me.data),
                                !.written = me.written \o me.data,
                                !.data = <<>>,
                                !.pc = "iter"]]
          ELSE /\ file' = file
               /\ workers' = [workers EXCEPT ![w].pc = "failed"]
    /\ UNCHANGED <<partVars, auxVars, coreOnly, pc, use_ram_buffer, total_size, max_connections,
                   ranges, chunk_buffers, write_positions, joinIdx, pending, fileExists, output_path, result,
                   expected_hash, file_hash, faults>>

----------------------------------------------------------------------------
(* ChunkBuffer (lines 33-113) *)

\* the model's stand-ins for the defaults of ChunkBuffer.__init__
\* (chunk_size_bytes = 256 MiB, max_buffer_bytes = 1 GiB), at the model's scale
ModelChunkSize == 2
ModelMaxBuffer == 3
\* virtual_memory().available as sampled by __init__: scarce or plentiful
LowRam == 5
AvailableChoices == {LowRam, 10 * ModelMaxBuffer}

\* __init__: max_buffer_size = min(max_buffer_bytes, available * 0.30), a
\* float; the record keeps ten times its value, which is an integer
ChunkBuffer_init(chunk_size_bytes, max_buffer_bytes, available) ==
    [ chunk_size         |-> chunk_size_bytes,
      max_buffer_size10  |-> Min(10 * max_buffer_bytes, 3 * available),
      current_buffer     |-> <<>>,
      current_size       |-> 0,
      total_buffered     |-> 0 ]

\* a write that does not compare total_buffered with the cap (a mutant of
\* write_refuses)
write_refuses_two_checks(cb, n, total_file_size_bytes) ==
    \/ 10 * (cb.current_size + n) > cb.max_buffer_size10
    \/ cb.total_buffered + n > total_file_size_bytes

\* lines 84-94: the three refusals of write
write_refuses(cb, n, total_file_size_bytes) ==
    \/ 10 * (cb.current_size + n) > cb.max_buffer_size10
    \/ 10 * (cb.total_buffered + n) > cb.max_buffer_size10
    \/ cb.total_buffered + n > total_file_size_bytes

\* a write that emits only full chunks (a mutant of write_emits)
write_emits_full_chunks(cb, total_file_size_bytes) ==
    cb.current_size >= cb.chunk_size

\* lines 100-104: the emission triggers, evaluated after the append
write_emits(cb, total_file_size_bytes) ==
    \/ cb.current_size >= cb.chunk_size
    \/ cb.total_buffered >= total_file_size_bytes
    \/ 10 * cb.current_size >= cb.max_buffer_size10

\* ChunkBuffer.write: the buffer afterwards and the value returned
\* (none = TRUE for None, else ret is the emitted bytes)
ChunkBuffer_write(cb, data, total_file_size_bytes) ==
    IF write_refuses(cb, Len(data), total_file_size_bytes)
    THEN [cb |-> cb, none |-> TRUE, ret |-> <<>>]
    ELSE LET app == [cb EXCEPT !.current_buffer = cb.current_buffer \o data,
                               !.current_size = cb.current_size + Len(data),
                               !.total_buffered = cb.total_buffered + Len(data)]
         IN IF write_emits(app, total_file_size_bytes)
            THEN [cb |-> [app EXCEPT !.current_buffer = <<>>, !.current_size = 0],
                  none |-> FALSE, ret |-> app.current_buffer]
            ELSE [cb |-> app, none |-> TRUE, ret |-> <<>>]

----------------------------------------------------------------------------
(* _download_with_buffer_file_writer (lines 239-265) *)

\* mm[position : position + len(data)] = data raises when the slice does not
\* lie inside the map of length total_size
file_writer_raises(data, position, size) == position + Len(data) > size

\* the file afterwards: extended to total_size when shorter (ftruncate), and
\* holding data at position when the slice assignment did not raise
file_writer(f, data, position, size) ==
    LET g == IF Len(f) < size THEN f \o Zeros(size - Len(f)) ELSE f
    IN  IF file_writer_raises(data, position, size)
        THEN g
        ELSE WriteAt(g, position, data)

----------------------------------------------------------------------------
(* _download_with_buffer_download_worker (lines 267-331) *)

\* lines 297-309: create the ChunkBuffer, send the request
BufferedRequest(w) ==
    /\ Running
    /\ use_ram_buffer
    /\ workers[w].pc = "submitted"
    /\ \E available \in AvailableChoices :
          chunk_buffers' = (w :> ChunkBuffer_init(ModelChunkSize, ModelMaxBuffer, available))
                              @@ chunk_buffers
    /\ \E resp \in Responses(request_len(workers[w].start, workers[w].end, total_size)) :
          /\ faults' = FaultsAfter(workers[w], resp)
          /\ workers' = [workers EXCEPT ![w] = Responded(workers[w], resp)]
    /\ UNCHANGED <<partVars, auxVars, coreOnly, pc, use_ram_buffer, total_size, max_connections,
                   ranges, write_positions, write_lock, joinIdx, pending,
                   fileExists, file, output_path, result, expected_hash,
                   file_hash>>

\* lines 314-321: hand the block to the buffer; write an emitted chunk at
\* start + write_positions[chunk_id] and advance the write position
BufferedWrite(w) ==
    /\ Running
    /\ use_ram_buffer
    /\ workers[w].pc = "have"
    /\ LET me == workers[w]
           r == ChunkBuffer_write(chunk_buffers[w], me.data, total_size)
           position == me.start + write_positions[w]
       IN /\ chunk_buffers' = [chunk_buffers EXCEPT ![w] = r.cb]
          /\ IF r.none \/ r.ret = <<>>
             THEN /\ workers' = [workers EXCEPT ![w] =
                        [me EXCEPT !.data = <<>>, !.pc = "iter"]]
                  /\ UNCHANGED <<file, write_positions>>
             ELSE IF ~fileExists
             THEN /\ workers' = [workers EXCEPT ![w].pc = "failed"]
                  /\ UNCHANGED <<file, write_positions>>
             ELSE IF file_writer_raises(r.ret, position, total_size)
             THEN /\ file' = file_writer(file, r.ret, position, total_size)
                  /\ workers' = [workers EXCEPT ![w].pc = "failed"]
                  /\ UNCHANGED write_positions
             ELSE /\ file' = file_writer(file, r.ret, position, total_size)
                  /\ write_positions' = [write_positions EXCEPT ![w] = @ + Len(r.ret)]
                  /\ workers' = [workers EXCEPT ![w] =
                        [me EXCEPT !.written = me.written \o r.ret,
                                   !.data = <<>>, !.pc = "iter"]]
    /\ UNCHANGED <<partVars, auxVars, coreOnly, pc, use_ram_buffer, total_size, max_connections,
                   ranges, write_lock, joinIdx, pending, fileExists,
                   output_path, result, expected_hash, file_hash, faults>>

\* lines 326-328: the response ended normally; write what the buffer holds
BufferedStreamEnd(w) ==
    /\ Running
    /\ use_ram_buffer
    /\ workers[w].pc = "iter"
    /\ workers[w].rpos = workers[w].resp_len
    /\ workers[w].resp_tail = "eof"
    /\ LET me == workers[w]
           remaining == chunk_buffers[w].current_buffer
           position == me.start + write_positions[w]
       IN IF remaining = <<>>
          THEN /\ workers' = [workers EXCEPT ![w].pc = "done"]
               /\ file' = file
          ELSE IF ~fileExists
          THEN /\ workers' = [workers EXCEPT ![w].pc = "failed"]
               /\ file' = file
          ELSE IF file_writer_raises(remaining, position, total_size)
          THEN /\ file' = file_writer(file, remaining, position, total_size)
               /\ workers' = [workers EXCEPT ![w].pc = "failed"]
          ELSE /\ file' = file_writer(file, remaining, position, total_size)
               /\ workers' = [workers EXCEPT ![w] =
                     [me EXCEPT !.written = me.written \o remaining, !.pc = "done"]]
    /\ UNCHANGED <<partVars, auxVars, coreOnly, pc, use_ram_buffer, total_size, max_connections,
                   ranges, chunk_buffers, write_positions, write_lock, joinIdx,
                   pending, fileExists, output_path, result, expected_hash,
                   file_hash, faults>>

----------------------------------------------------------------------------
(* The specification of downloader.TurboDL.download *)

Workers == DOMAIN workers

NextDl ==
    \/ DlFetchFileInfo
    \/ DlFetchFileInfoNoSize
    \/ DlFetchFileInfoRaises
    \/ DlSpaceCheck
    \/ DlAllocate
    \/ DlAllocateRaises
    \/ DlSubmit
    \/ DlDownloadChunk
    \/ DlDownloadChunkRaises
    \/ CoordJoin
    \/ CoordJoinRaises
    \/ CoordAllJoined
    \/ DlKeyboardInterrupt
    \/ DlExceptKeyboardInterrupt
    \/ DlExceptException
    \/ DlVerifyHash
    \/ \E w \in Workers : DirectRequest(w)
    \/ \E w \in Workers : BufferedRequest(w)
    \/ \E w \in Workers : WorkerRead(w)
    \/ \E w \in Workers : WorkerStreamRaises(w)
    \/ \E w \in Workers : DirectStreamEnd(w)
    \/ \E w \in Workers : DirectAcquire(w)
    \/ \E w \in Workers : DirectWrite(w)
    \/ \E w \in Workers : BufferedWrite(w)
    \/ \E w \in Workers : BufferedStreamEnd(w)

SpecDl == InitDl /\ [][NextDl]_vars

----------------------------------------------------------------------------
(* Claims about the partitioners (checked under SpecRanges) *)

RangeLen(r) == r[2] - r[1] + 1

\* rs is an ordered partition of [0, size - 1]
OrderedPartition(rs, size) ==
    /\ Len(rs) >= 1
    /\ rs[1][1] = 0
    /\ rs[Len(rs)][2] = size - 1
    /\ \A i \in 1..Len(rs) : rs[i][1] <= rs[i][2]
    /\ \A i \in 1..(Len(rs) - 1) : rs[i + 1][1] = rs[i][2] + 1

\* C6 (as claimed): for every size >= 1 and every connection count, the
\* partitioner of utils returns at most as many ranges as the connection
\* count. The code returns more when size > max_connections * MAX_CHUNK_SIZE.
C6_RangesAtMostConnections ==
    (pFn = "generate_chunk_ranges" /\ pSize >= 1) => Len(pRanges) <= pConn

\* C7: for every size >= 1 and every connection count >= 1, the list either
\* partitioner returns is an ordered partition of [0, size - 1]: it starts at
\* 0, every range has start <= end, each next range starts at the previous
\* end + 1, and the last range ends at size - 1.
C7_OrderedPartition ==
    (pFn \in {"generate_chunk_ranges", "get_chunk_ranges"} /\ pSize >= 1)
        => OrderedPartition(pRanges, pSize)

C7_Witness ==
    /\ pFn = "generate_chunk_ranges"
    /\ pSize >= 1
    /\ Len(pRanges) >= 3
    /\ RangeLen(pRanges[Len(pRanges)]) < RangeLen(pRanges[1])

\* C8: for every size >= MIN_CHUNK_SIZE and every connection count in
\* [2, 24], every range of generate_chunk_ranges but the last has a length in
\* [MIN_CHUNK_SIZE, MAX_CHUNK_SIZE], and the last has a length <= MAX_CHUNK_SIZE.
C8_ChunkLengthsBounded ==
    (/\ pFn = "generate_chunk_ranges"
     /\ pSize >= MIN_CHUNK_SIZE
     /\ pConn \in MIN_CONNECTIONS..MAX_CONNECTIONS)
        => /\ \A i \in 1..Len(pRanges) : RangeLen(pRanges[i]) <= MAX_CHUNK_SIZE
           /\ \A i \in 1..(Len(pRanges) - 1) : RangeLen(pRanges[i]) >= MIN_CHUNK_SIZE

C8_Witness ==
    /\ pFn = "generate_chunk_ranges"
    /\ pSize > 2 * MAX_CHUNK_SIZE
    /\ pConn \in MIN_CONNECTIONS..MAX_CONNECTIONS
    /\ Len(pRanges) = 3
    /\ RangeLen(pRanges[1]) = MAX_CHUNK_SIZE
    /\ RangeLen(pRanges[3]) < MIN_CHUNK_SIZE

----------------------------------------------------------------------------
(* Claims about downloader.TurboDL.download (checked under SpecDl) *)

\* worker w finished without error and its response delivered exactly the
\* bytes it had requested
DeliveredExactly(w) ==
    /\ workers[w].pc = "done"
    /\ workers[w].resp_tail = "eof"
    /\ workers[w].resp_len = workers[w].req_len

\* the fetch is over and no exception is travelling
FetchSucceeded == pc = "fetched" /\ pending = "none"

\* the file holds the remote byte at every offset k in [0, size)
FileHoldsRemote ==
    /\ fileExists
    /\ Len(file) >= total_size
    /\ \A k \in 0..(total_size - 1) : file[k + 1] = RemoteByte(k)

\* C1: in direct mode, for every partition into ranges and every
\* interleaving of the workers, when each worker's response delivers exactly
\* the requested bytes and all workers finish without error, the output file
\* holds at every offset k in [0, size) the remote byte at k.
C1_DirectFileHoldsRemote ==
    (/\ FetchSucceeded
     /\ ~use_ram_buffer
     /\ \A w \in Workers : DeliveredExactly(w))
        => FileHoldsRemote

C1_Witness ==
    /\ FetchSucceeded
    /\ ~use_ram_buffer
    /\ Len(workers) >= 2
    /\ \A w \in Workers : DeliveredExactly(w)
    /\ \E w \in Workers : workers[w].req_len >= 2 /\ workers[w].req_from > 0
    /\ FileHoldsRemote

\* C2 (as claimed): whenever a download call ends with an error raised
\* during pre-allocation or fetching, the output file does not exist when the
\* call returns. downloader.TurboDL.download re-raises without unlinking.
C2_NoFileAfterFailedDownload ==
    (pc = "raised" /\ result = "DownloadError") => ~fileExists

\* C4 (as claimed): in buffered mode no byte is dropped: when a worker
\* finishes, the bytes it has written to the file (emitted chunks plus the
\* residual flush) are exactly the bytes it read from the stream, in order.
\* ChunkBuffer.write refuses blocks and the worker does not retry them.
C4_BufferedWritesAllBytesRead ==
    \A w \in Workers :
        (use_ram_buffer /\ workers[w].pc = "done")
            => workers[w].written = RemoteSlice(workers[w].req_from, workers[w].rpos)

\* C5 (as claimed): a download returns successfully only if every worker
\* delivered its whole range: when some worker's response ends normally after
\* fewer bytes than requested, the download fails. Nothing in the code
\* compares the bytes received with the probed size.
C5_ShortStreamFailsDownload ==
    (pc = "returned" /\ pending = "none")
        => \A w \in Workers :
              ~(workers[w].resp_tail = "eof" /\ workers[w].resp_len < workers[w].req_len)

\* C10 (as claimed): once the caller has observed the failure of a worker
\* (future.result() raised), no worker reads or writes any further data.
\* The executor's shutdown(wait=True) lets the running workers go on.
C10_NoProgressAfterFailureObserved ==
    [][(pc = "unwinding" /\ pending = "DownloadError")
          => (/\ file' = file
              /\ \A w \in Workers : workers'[w].rpos = workers[w].rpos)]_vars

\* the attempts the worker tasks are claimed to make before they give up
WORKER_ATTEMPTS == 5

\* C11 (as claimed): a worker whose transfer fails with a transient error is
\* retried, up to 5 attempts in total: a worker task ends in failure only
\* after its 5th attempt. The worker tasks of downloader.TurboDL carry no
\* retry: the first transient error ends the task and the download.
C11_WorkerFailsOnlyAfterFiveAttempts ==
    \A w \in Workers :
        workers[w].pc = "failed" => workers[w].attempts >= WORKER_ATTEMPTS

\* C15 (as claimed): a download whose probe yields no usable size is
\* rejected with an error before any output file is created or touched and
\* before any worker is started. downloader.TurboDL.download goes on with
\* total_size = 0: it touches the file and fetches the body in one request.
C15_NoSizeRejectedBeforeFile ==
    (pc # "start" /\ total_size = 0)
        => (~fileExists /\ pc \notin {"allocated", "fetched", "returned"})

----------------------------------------------------------------------------
(* core.TurboDL: the download call, _cleanup and the signal handler *)

MaxCalls == 2       \* download calls made on one instance

dlOnly == <<use_ram_buffer, workers, chunk_buffers, write_positions,
            write_lock, joinIdx, pending, faults>>

\* a file left at the output path by an earlier program run
Stale(n) == [i \in 1..n |-> 99]

InitCore ==
    /\ AuxIdle
    /\ PartIdle
    /\ pc = "idle"
    /\ max_connections \in 1..MaxConn
    /\ use_ram_buffer = FALSE /\ total_size = 0
    /\ ranges = <<>> /\ workers = <<>>
    /\ chunk_buffers = <<>> /\ write_positions = <<>>
    /\ write_lock = 0 /\ joinIdx = 0 /\ pending = "none"
    /\ fileExists \in BOOLEAN
    /\ file = IF fileExists THEN Stale(MaxSize + 1) ELSE <<>>
    /\ output_path = "None"
    /\ result = "none" /\ expected_hash = NoHash /\ file_hash = NoHash
    /\ faults = 0
    /\ CoreIdle

\* _cleanup (lines 100-113): unlink(missing_ok=True) of self._output_path
\* when it is a Path, then close the HTTP client
cleanup_fileExists == IF priv_output_path # "None" THEN FALSE ELSE fileExists
cleanup_file == IF priv_output_path # "None" THEN <<>> ELSE file

\* the instance is idle: constructed, or a download call has ended
CoreCallable == pc \in {"idle", "returned", "raised"} /\ exit_status = NotExited

\* lines 162-180: headers, timeouts, self._output_path = the resolved path
CoreDownloadEnter ==
    /\ CoreCallable
    /\ calls < MaxCalls
    /\ calls' = calls + 1
    /\ priv_output_path' = "file"
    /\ pc' = "entered"
    /\ result' = "none"
    /\ progress' = 0
    /\ interrupted_at' = "none"
    /\ cleanups' = 0
    /\ expected_hash' = NoHash /\ file_hash' = NoHash
    /\ UNCHANGED <<partVars, auxVars, dlOnly, total_size, max_connections, ranges,
                   fileExists, file, output_path, client_closed, exit_status>>

\* lines 182-188: the probe returns a size; a closed client cannot send
CoreFetchFileInfo ==
    /\ pc = "entered"
    /\ IF client_closed
       THEN /\ pc' = "raised" /\ result' = "RuntimeError"
            /\ UNCHANGED total_size
       ELSE /\ pc' = "probed" /\ result' = result
            /\ \E size \in 1..MaxSize : total_size' = size
    /\ UNCHANGED <<partVars, auxVars, dlOnly, coreOnly, max_connections, ranges,
                   fileExists, file, output_path, expected_hash, file_hash>>

\* utils.fetch_file_info raises RemoteFileError (line 444/447)
CoreFetchFileInfoRaises ==
    /\ pc = "entered"
    /\ ~client_closed
    /\ pc' = "raised"
    /\ result' = "RemoteFileError"
    /\ UNCHANGED <<partVars, auxVars, dlOnly, coreOnly, total_size, max_connections,
                   ranges, fileExists, file, output_path, expected_hash,
                   file_hash>>

\* lines 195-199: the ranges of the fetch
CorePlan ==
    /\ pc = "probed"
    /\ ranges' = generate_chunk_ranges(total_size, max_connections)
    /\ pc' = "planned"
    /\ UNCHANGED <<partVars, auxVars, dlOnly, coreOnly, total_size, max_connections,
                   fileExists, file, output_path, result, expected_hash,
                   file_hash>>

\* a free-space check that runs after the file was touched (a mutant of
\* CoreSpaceCheck)
CoreSpaceCheckAfterTouch ==
    /\ pc = "planned"
    /\ \E has_available_space \in BOOLEAN :
          IF has_available_space
          THEN pc' = "checked" /\ result' = result
          ELSE pc' = "raised" /\ result' = "NotEnoughSpaceError"
    /\ fileExists' = TRUE
    /\ file' = IF fileExists THEN file ELSE <<>>
    /\ UNCHANGED <<partVars, auxVars, dlOnly, coreOnly, total_size, max_connections,
                   ranges, output_path, expected_hash, file_hash>>

\* lines 201-203: the free-space check
CoreSpaceCheck ==
    /\ pc = "planned"
    /\ \E has_available_space \in BOOLEAN :
          IF has_available_space
          THEN pc' = "checked" /\ result' = result
          ELSE pc' = "raised" /\ result' = "NotEnoughSpaceError"
    /\ UNCHANGED <<partVars, auxVars, dlOnly, coreOnly, total_size, max_connections,
                   ranges, fileExists, file, output_path, expected_hash,
                   file_hash>>

\* lines 219-233: open "wb" and truncate(size), or touch(exist_ok=True)
CoreAllocate ==
    /\ pc = "checked"
    /\ \E pre_allocate_space \in BOOLEAN :
          IF pre_allocate_space
          THEN file' = Zeros(total_size)
          ELSE file' = IF fileExists THEN file ELSE <<>>
    /\ fileExists' = TRUE
    /\ pc' = "fetching"
    /\ UNCHANGED <<partVars, auxVars, dlOnly, coreOnly, total_size, max_connections,
                   ranges, output_path, result, expected_hash, file_hash>>

\* lines 230/233 raise; lines 275-277: _cleanup, re-raise
CoreAllocateRaises ==
    /\ pc = "checked"
    /\ fileExists' = cleanup_fileExists
    /\ file' = cleanup_file
    /\ client_closed' = TRUE
    /\ cleanups' = cleanups + 1
    /\ pc' = "raised"
    /\ result' = "OSError"
    /\ UNCHANGED <<partVars, auxVars, dlOnly, total_size, max_connections, ranges,
                   output_path, expected_hash, file_hash, priv_output_path,
                   progress, calls, exit_status, interrupted_at>>

\* lines 266-271: the fetch (download_with_buffer / download_without_buffer)
\* writes the next remote byte at its offset
CoreFetchWrite ==
    /\ pc = "fetching"
    /\ progress < total_size
    /\ file' = WriteAt(file, progress, <<RemoteByte(progress)>>)
    /\ progress' = progress + 1
    /\ UNCHANGED <<partVars, auxVars, dlOnly, pc, total_size, max_connections, ranges,
                   fileExists, output_path, result, expected_hash, file_hash,
                   priv_output_path, client_closed, calls, exit_status,
                   interrupted_at, cleanups>>

\* the fetch returns: every byte has been written
CoreFetchReturns ==
    /\ pc = "fetching"
    /\ progress = total_size
    /\ pc' = "fetched"
    /\ UNCHANGED <<partVars, auxVars, dlOnly, coreOnly, total_size, max_connections,
                   ranges, fileExists, file, output_path, result,
                   expected_hash, file_hash>>

\* the fetch raises; lines 275-277: _cleanup, re-raise
CoreFetchRaises ==
    /\ pc = "fetching"
    /\ fileExists' = cleanup_fileExists
    /\ file' = cleanup_file
    /\ client_closed' = TRUE
    /\ cleanups' = cleanups + 1
    /\ pc' = "raised"
    /\ result' = "DownloadError"
    /\ UNCHANGED <<partVars, auxVars, dlOnly, total_size, max_connections, ranges,
                   output_path, expected_hash, file_hash, priv_output_path,
                   progress, calls, exit_status, interrupted_at>>

\* KeyboardInterrupt reaches the try block; lines 272-274: _cleanup, raise
\* DownloadInterruptedError
CoreKeyboardInterrupt ==
    /\ pc = "fetching"
    /\ fileExists' = cleanup_fileExists
    /\ file' = cleanup_file
    /\ client_closed' = TRUE
    /\ cleanups' = cleanups + 1
    /\ pc' = "raised"
    /\ result' = "DownloadInterruptedError"
    /\ interrupted_at' = "fetching"
    /\ UNCHANGED <<partVars, auxVars, dlOnly, total_size, max_connections, ranges,
                   output_path, expected_hash, file_hash, priv_output_path,
                   progress, calls, exit_status>>

\* lines 279-284 and utils.verify_hash: set output_path, then verify; a
\* mismatch raises HashVerificationError (mmap of an empty file: ValueError)
CoreVerifyHash ==
    /\ pc = "fetched"
    /\ output_path' = "file"
    /\ \E expected \in ExpectedChoices(total_size) :
          /\ expected_hash' = expected
          /\ IF expected = NoHash
             THEN /\ pc' = "returned" /\ result' = "None"
                  /\ file_hash' = file_hash
             ELSE IF file = <<>>
             THEN /\ pc' = "raised" /\ result' = "ValueError"
                  /\ file_hash' = file_hash
             ELSE /\ file_hash' = hexdigest(file)
                  /\ IF file_hash' # expected
                     THEN pc' = "raised" /\ result' = "HashVerificationError"
                     ELSE pc' = "returned" /\ result' = "None"
    /\ UNCHANGED <<partVars, auxVars, dlOnly, coreOnly, total_size, max_connections,
                   ranges, fileExists, file>>

\* _signal_handler (lines 83-98): SIGINT or SIGTERM arrives at any moment of
\* the instance's life; _cleanup, then exit(0) ends the process
CoreSignal ==
    /\ pc # "exited"
    /\ exit_status = NotExited
    /\ fileExists' = cleanup_fileExists
    /\ file' = cleanup_file
    /\ client_closed' = TRUE
    /\ cleanups' = cleanups + 1
    /\ exit_status' = 0
    /\ interrupted_at' = pc
    /\ pc' = "exited"
    /\ result' = "SystemExit"
    /\ UNCHANGED <<partVars, auxVars, dlOnly, total_size, max_connections, ranges,
                   output_path, expected_hash, file_hash, priv_output_path,
                   progress, calls>>

NextCore ==
    \/ CoreDownloadEnter
    \/ CoreFetchFileInfo
    \/ CoreFetchFileInfoRaises
    \/ CorePlan
    \/ CoreSpaceCheck
    \/ CoreAllocate
    \/ CoreAllocateRaises
    \/ CoreFetchWrite
    \/ CoreFetchReturns
    \/ CoreFetchRaises
    \/ CoreKeyboardInterrupt
    \/ CoreVerifyHash
    \/ CoreSignal

SpecCore == InitCore /\ [][NextCore]_vars

----------------------------------------------------------------------------
(* Claims about core.TurboDL.download (checked under SpecCore) *)

\* C3 (as claimed): when an expected hash is given and the digest of the
\* assembled file differs from it, the call fails with HashVerification and
\* the output file has been unlinked when the call returns. core.TurboDL
\* raises from verify_hash outside the try block: nothing unlinks the file.
C3_HashMismatchUnlinksFile ==
    (/\ pc \in {"returned", "raised"}
     /\ expected_hash # NoHash
     /\ file_hash # NoHash
     /\ file_hash # expected_hash)
        => (pc = "raised" /\ result = "HashVerificationError" /\ ~fileExists)

\* C9 (as claimed): when the user cancels a download while it is fetching,
\* the partial output file is unlinked and the call ends by raising
\* DownloadInterrupted; it neither returns normally nor ends the process
\* with a success status. The signal handler of core.TurboDL calls exit(0).
C9_CancelRaisesDownloadInterrupted ==
    (interrupted_at = "fetching")
        => (/\ pc = "raised"
            /\ result = "DownloadInterruptedError"
            /\ ~fileExists
            /\ exit_status = NotExited)

----------------------------------------------------------------------------
(* utils.fetch_file_info: the probe and its tenacity retry *)

PROBE_ATTEMPTS == 3     \* stop_after_attempt(3)

\* httpx.HTTPError and its subclasses, as raised by head(), get() and
\* raise_for_status()
HTTPErrors == {"HTTPStatusError", "ConnectError", "TimeoutException",
               "RemoteProtocolError"}

\* retry_if_exception_type((HTTPError, RequestError, ConnectError,
\* TimeoutException)): RemoteFileError and the other errors of the package
\* are none of these
probe_retries(e) == e \in HTTPErrors

\* header values are strings, modelled as sequences of characters
DigitChars == <<"0", "1", "2", "3", "4", "5", "6", "7", "8", "9">>
IsDigit(c) == \E i \in 1..10 : DigitChars[i] = c
DigitVal(c) == (CHOOSE i \in 1..10 : DigitChars[i] = c) - 1

\* the digits of int(s) once its sign is taken off
int_body(s) == IF s # <<>> /\ s[1] \in {"-", "+"} THEN Tail(s) ELSE s

\* int(s) raises ValueError
int_raises(s) ==
    \/ int_body(s) = <<>>
    \/ \E i \in 1..Len(int_body(s)) : ~IsDigit(int_body(s)[i])

RECURSIVE digits_value(_, _)
digits_value(ds, acc) ==
    IF ds = <<>> THEN acc
    ELSE digits_value(Tail(ds), 10 * acc + DigitVal(Head(ds)))

\* int(s) when it does not raise
int_value(s) ==
    IF s[1] = "-" THEN 0 - digits_value(int_body(s), 0)
    ELSE digits_value(int_body(s), 0)

\* content_range.split("/")[-1]
split_last(s) ==
    LET idx == {i \in 1..Len(s) : s[i] = "/"}
    IN IF idx = {} THEN s
       ELSE SubSeq(s, (CHOOSE i \in idx : \A j \in idx : j <= i) + 1, Len(s))

\* the value of `size`: none |-> TRUE is Python's None
SizeNone == [none |-> TRUE, val |-> 0]
SizeOf(n) == [none |-> FALSE, val |-> n]
\* `not size`
size_falsy(sz) == sz.none \/ sz.val = 0

\* `if h := r_headers.get(name)`: the header is there and not empty
header_truthy(h) == h # NoHeader /\ h # <<>>

\* lines 451-454: size after the Content-Range step
size_after_content_range(h) ==
    IF header_truthy(h.content_range) /\ ~int_raises(split_last(h.content_range))
    THEN SizeOf(int_value(split_last(h.content_range)))
    ELSE SizeNone

\* a probe that never reads Content-Length (a mutant of
\* size_after_content_length)
size_without_content_length(h) == size_after_content_range(h)

\* lines 456-459: size after the Content-Length step
size_after_content_length(h) ==
    LET size == size_after_content_range(h)
    IN IF size_falsy(size) /\ header_truthy(h.content_length)
          /\ ~int_raises(h.content_length)
       THEN SizeOf(int_value(h.content_length))
       ELSE size

\* lines 461-462: `if not size or size <= 0: raise InvalidFileSizeError`
size_invalid(h) ==
    LET size == size_after_content_length(h)
    IN size_falsy(size) \/ size.val <= 0

ContentRangeChoices ==
    { NoHeader, <<>>,
      <<"b", " ", "0", "-", "0", "/", "3">>,
      <<"b", " ", "0", "-", "0", "/", "1", "2">>,
      <<"b", " ", "0", "-", "0", "/", "0">>,
      <<"b", " ", "0", "-", "0", "/", "*">>,
      <<"b", " ", "0", "-", "0", "/", "-", "1">>,
      <<"b", " ", "0", "-", "0", "/">>,
      <<"2">> }

ContentLengthChoices ==
    { NoHeader, <<>>, <<"0">>, <<"1">>, <<"4">>, <<"-", "2">>, <<"x">> }

\* other |-> TRUE: the response carries some other header as well
HeaderChoices ==
    [content_range : ContentRangeChoices, content_length : ContentLengthChoices,
     other : BOOLEAN]

\* line 446: `not r_headers`, the response carries no header at all
headers_empty(h) ==
    h.content_range = NoHeader /\ h.content_length = NoHeader /\ ~h.other

InitProbe ==
    /\ PartIdle /\ DlIdle /\ CoreIdle /\ AuxIdleBut("probe")
    /\ prPc = "idle" /\ prAttempt = 0 /\ prHead = "none" /\ prGet = "none"
    /\ prHeaders = [content_range |-> NoHeader, content_length |-> NoHeader,
                    other |-> FALSE]
    /\ prResult = "none" /\ prSize = 0

\* the call; lines 427-428: an empty url raises InvalidArgumentError, which
\* tenacity does not retry
ProbeCall ==
    /\ prPc = "idle"
    /\ prAttempt' = 1
    /\ \E url_empty \in BOOLEAN :
          IF url_empty
          THEN prPc' = "raised" /\ prResult' = "InvalidArgumentError"
          ELSE prPc' = "head" /\ prResult' = prResult
    /\ UNCHANGED <<butProbe, prHead, prGet, prHeaders, prSize>>

\* lines 433-437: HEAD answers with a success status
ProbeHead ==
    /\ prPc = "head"
    /\ prHead' = "ok"
    /\ prGet' = "none"
    /\ prHeaders' \in HeaderChoices
    /\ prPc' = "parse"
    /\ UNCHANGED <<butProbe, prAttempt, prResult, prSize>>

\* lines 438-439: HEAD raises RemoteProtocolError: fall back to a ranged GET
ProbeHeadProtocolError ==
    /\ prPc = "head"
    /\ prHead' = "RemoteProtocolError"
    /\ prGet' = "none"
    /\ prPc' = "get"
    /\ UNCHANGED <<butProbe, prAttempt, prHeaders, prResult,
                   prSize>>

\* lines 443-444: any other HTTPError of head() or raise_for_status() is
\* turned into RemoteFileError, which leaves the function and is not retried
ProbeHeadRaises ==
    /\ prPc = "head"
    /\ prHead' \in HTTPErrors \ {"RemoteProtocolError"}
    /\ prGet' = "none"
    /\ IF probe_retries("RemoteFileError") /\ prAttempt < PROBE_ATTEMPTS
       THEN prPc' = "head" /\ prAttempt' = prAttempt + 1 /\ prResult' = prResult
       ELSE prPc' = "raised" /\ prAttempt' = prAttempt
            /\ prResult' = "RemoteFileError"
    /\ UNCHANGED <<butProbe, prHeaders, prSize>>

\* lines 440-442: the fallback GET answers with a success status
ProbeGet ==
    /\ prPc = "get"
    /\ prGet' = "ok"
    /\ prHeaders' \in HeaderChoices
    /\ prPc' = "parse"
    /\ UNCHANGED <<butProbe, prAttempt, prHead, prResult,
                   prSize>>

\* lines 440-441 raise inside the except clause: the HTTPError leaves the
\* function as it is; tenacity starts another attempt or re-raises it
ProbeGetRaises ==
    /\ prPc = "get"
    /\ \E e \in HTTPErrors :
          /\ prGet' = e
          /\ IF probe_retries(e) /\ prAttempt < PROBE_ATTEMPTS
             THEN prPc' = "head" /\ prAttempt' = prAttempt + 1
                  /\ prResult' = prResult
             ELSE prPc' = "raised" /\ prAttempt' = prAttempt /\ prResult' = e
    /\ UNCHANGED <<butProbe, prHead, prHeaders, prSize>>

\* lines 446-499: the size is parsed and checked; the RemoteFileInfo is built
ProbeParse ==
    /\ prPc = "parse"
    /\ IF headers_empty(prHeaders)
       THEN /\ prPc' = "raised" /\ prResult' = "RemoteFileError"
            /\ prSize' = prSize
       ELSE IF size_invalid(prHeaders)
       THEN /\ prPc' = "raised" /\ prResult' = "InvalidFileSizeError"
            /\ prSize' = prSize
       ELSE /\ prPc' = "returned" /\ prResult' = "RemoteFileInfo"
            /\ prSize' = size_after_content_length(prHeaders).val
    /\ UNCHANGED <<butProbe, prAttempt, prHead, prGet,
                   prHeaders>>

NextProbe ==
    \/ ProbeCall
    \/ ProbeHead
    \/ ProbeHeadProtocolError
    \/ ProbeHeadRaises
    \/ ProbeGet
    \/ ProbeGetRaises
    \/ ProbeParse

SpecProbe == InitProbe /\ [][NextProbe]_vars

----------------------------------------------------------------------------
(* Claims about utils.fetch_file_info (checked under SpecProbe) *)

\* the HEAD request of the last attempt failed with a transient error
HeadFailedTransiently ==
    prHead \in {"ConnectError", "TimeoutException", "HTTPStatusError"}

\* C12 (as claimed): the probe is attempted at most 3 times, and a transient
\* connect/timeout/HTTP failure of the HEAD request is followed by another
\* attempt while fewer than 3 attempts have been made: the probe gives up on
\* such a failure only at its 3rd attempt. The code turns the failure into
\* RemoteFileError inside the function, and tenacity does not retry that.
C12_HeadFailureRetriedUpToThreeAttempts ==
    /\ prAttempt <= PROBE_ATTEMPTS
    /\ (prPc = "raised" /\ HeadFailedTransiently) => prAttempt = PROBE_ATTEMPTS

\* C13 (as claimed): every failure of the probe caused by an HTTP-level
\* error, on the HEAD request or on the fallback ranged GET, reaches the
\* caller as RemoteFileError, never as a raw HTTP-client exception. An error
\* of the fallback GET leaves the function as the httpx exception it is.
C13_HttpFailureSurfacesAsRemoteFileError ==
    (prPc = "raised" /\ (HeadFailedTransiently \/ prGet \in HTTPErrors))
        => prResult = "RemoteFileError"

\* the total of the Content-Range header of the response
ContentRangeTotal == split_last(prHeaders.content_range)

ContentRangeUsable ==
    /\ prHeaders.content_range \notin {NoHeader, <<>>}
    /\ ~int_raises(ContentRangeTotal)
    /\ int_value(ContentRangeTotal) # 0

\* the Content-Length header yields an integer
ContentLengthUsable ==
    /\ prHeaders.content_length \notin {NoHeader, <<>>}
    /\ ~int_raises(prHeaders.content_length)

----------------------------------------------------------------------------
(* utils.has_available_space *)

MaxFreeDelta == 1   \* free space is drawn within this distance of the need

\* the directory the code hands to disk_usage (line 397): the parent when
\* the path is a file or does not exist, else the path itself
check_path(kind) == IF kind \in {"file", "missing"} THEN "parent" ELSE "path"

\* disk_usage raises (FileNotFoundError) when that directory does not exist
disk_usage_raises(kind, parent_exists) ==
    check_path(kind) = "parent" /\ ~parent_exists

\* lines 393-406
has_available_space(kind, parent_exists, free, required_size_bytes) ==
    IF disk_usage_raises(kind, parent_exists)
    THEN FALSE
    ELSE free[check_path(kind)] >= required_size_bytes + ONE_GB

FreeChoices(size) ==
    { size + ONE_GB + d : d \in (0 - MaxFreeDelta)..MaxFreeDelta }

InitSpace ==
    /\ PartIdle /\ DlIdle /\ CoreIdle /\ AuxIdleBut("space")
    /\ spKind \in {"dir", "file", "missing"}
    /\ spParentExists \in BOOLEAN
    /\ (spKind # "missing" => spParentExists)
    /\ spSize \in 1..MaxSize
    /\ spFree \in [path : FreeChoices(spSize), parent : FreeChoices(spSize),
                   grand : FreeChoices(spSize)]
    \* a file lives on the filesystem of its directory; a missing path has
    \* no filesystem of its own
    /\ (spKind # "dir" => spFree.path = spFree.parent)
    /\ spOut = "none"

CallHasAvailableSpace ==
    /\ spOut = "none"
    /\ spOut' = IF has_available_space(spKind, spParentExists, spFree, spSize)
                THEN "True" ELSE "False"
    /\ UNCHANGED <<butSpace, spKind,
                   spParentExists, spFree, spSize>>

NextSpace == CallHasAvailableSpace

SpecSpace == InitSpace /\ [][NextSpace]_vars

\* the deepest existing ancestor of the path (the path itself when it is a
\* directory)
DeepestExisting ==
    IF spKind = "dir" THEN "path"
    ELSE IF spParentExists THEN "parent" ELSE "grand"

\* C16 (as claimed): the space check passes if and only if the free space of
\* the filesystem holding the deepest existing ancestor of the output path
\* is >= size + 1 GiB, also for a path whose parent directory does not exist
\* yet. The code asks for the disk usage of the parent itself; when the
\* parent does not exist the error is swallowed and the check fails.
C16_PassIffDeepestAncestorHasSpace ==
    spOut # "none"
        => (spOut = "True" <=> spFree[DeepestExisting] >= spSize + ONE_GB)

----------------------------------------------------------------------------
(* The output file name: core.py lines 209-217, downloader.py lines 549-556 *)

MaxNames == 4       \* numbered names x_1.bin .. x_MaxNames.bin that may exist

\* a file name is its stem followed by its suffix: x.bin is <<"x", ".bin">>
RequestedName == <<"x", ".bin">>
\* Path.stem and Path.suffix
stem(name) == SubSeq(name, 1, Len(name) - 1)
suffix(name) == name[Len(name)]
\* str(counter)
str_int(n) == DigitChars[n + 1]

\* a name built from the stem of the current path (a mutant of numbered_name)
numbered_from_current(base_name, current, counter, extension) ==
    stem(current) \o <<"_", str_int(counter), extension>>

\* line 216: f"{base_name}_{counter}{extension}"
numbered_name(base_name, current, counter, extension) ==
    base_name \o <<"_", str_int(counter), extension>>

\* the name x_k.bin
Numbered(k) == <<"x", "_", str_int(k), ".bin">>

InitName ==
    /\ PartIdle /\ DlIdle /\ CoreIdle /\ AuxIdleBut("name")
    /\ nmPc = "start"
    /\ nmOverwrite \in BOOLEAN
    /\ nmExisting \in SUBSET ({RequestedName} \cup {Numbered(k) : k \in 1..MaxNames})
    /\ nmPath = RequestedName
    /\ nmCounter = 0

\* lines 210-213: with overwrite the path is kept; else counter = 1
NameStart ==
    /\ nmPc = "start"
    /\ IF nmOverwrite
       THEN nmPc' = "chosen" /\ nmCounter' = nmCounter
       ELSE nmPc' = "loop" /\ nmCounter' = 1
    /\ UNCHANGED <<butName, nmOverwrite, nmExisting, nmPath>>

\* lines 215-217: the path exists: take the next numbered name
NameLoopStep ==
    /\ nmPc = "loop"
    /\ nmPath \in nmExisting
    /\ nmPath' = numbered_name(stem(RequestedName), nmPath, nmCounter,
                               suffix(RequestedName))
    /\ nmCounter' = nmCounter + 1
    /\ UNCHANGED <<butName, nmPc,
                   nmOverwrite, nmExisting>>

\* line 215: the path does not exist: the loop ends
NameLoopExit ==
    /\ nmPc = "loop"
    /\ nmPath \notin nmExisting
    /\ nmPc' = "chosen"
    /\ UNCHANGED <<butName, nmOverwrite, nmExisting, nmPath, nmCounter>>

NextName == NameStart \/ NameLoopStep \/ NameLoopExit

SpecName == InitName /\ [][NextName]_vars

\* C17: with overwrite=false the chosen path is the requested path when no
\* file exists there, and otherwise <stem>_k<extension> for the smallest
\* k >= 1 whose path does not exist; it never names a file that existed when
\* it was chosen.
C17_SmallestFreeNumberedName ==
    (nmPc = "chosen" /\ ~nmOverwrite)
        => /\ nmPath \notin nmExisting
           /\ RequestedName \notin nmExisting => nmPath = RequestedName
           /\ RequestedName \in nmExisting
                 => \E k \in 1..(MaxNames + 1) :
                       /\ nmPath = Numbered(k)
                       /\ \A j \in 1..(k - 1) : Numbered(j) \in nmExisting

C17_Witness ==
    /\ nmPc = "chosen" /\ ~nmOverwrite
    /\ RequestedName \in nmExisting
    /\ Numbered(1) \in nmExisting
    /\ Numbered(2) \notin nmExisting
    /\ nmPath = <<"x", "_", "2", ".bin">>

----------------------------------------------------------------------------
(* utils.validate_headers *)

\* constants.DEFAULT_HEADERS and REQUIRED_HEADERS, merged into one dict each
DEFAULT_HEADERS ==
    [k \in {"Accept", "Accept-Language", "User-Agent"} |-> "default"]
REQUIRED_HEADERS == [k \in {"Accept-Encoding"} |-> "identity"]

\* header names a caller may pass
UserKeys == {"Accept-Encoding", "accept-encoding", "Range", "RANGE",
             "Connection", "User-Agent", "X-Token"}

\* str.lower() on those names and on the names of the constants
lower(k) ==
    CASE k \in {"Accept-Encoding", "accept-encoding"} -> "accept-encoding"
      [] k \in {"Range", "RANGE"} -> "range"
      [] k = "Connection" -> "connection"
      [] k = "User-Agent" -> "user-agent"
      [] k = "X-Token" -> "x-token"
      [] k = "Accept" -> "accept"
      [] k = "Accept-Language" -> "accept-language"

\* dict.update
dict_update(d, e) ==
    [k \in (DOMAIN d) \cup (DOMAIN e) |-> IF k \in DOMAIN e THEN e[k] ELSE d[k]]

\* lines 317-325: the required headers a user key collides with
conflicts(headers) ==
    { original_key \in DOMAIN REQUIRED_HEADERS :
        \E user_key \in DOMAIN headers : lower(user_key) = lower(original_key) }

\* lines 311-336, when nothing is raised
validate_headers(headers) ==
    dict_update(dict_update(DEFAULT_HEADERS, headers), REQUIRED_HEADERS)

InitHeaders ==
    /\ PartIdle /\ DlIdle /\ CoreIdle /\ AuxIdleBut("headers")
    /\ \E keys \in SUBSET UserKeys : hdUser = [k \in keys |-> "user"]
    /\ hdOut = "none"
    /\ hdFinal = <<>>

CallValidateHeaders ==
    /\ hdOut = "none"
    /\ IF conflicts(hdUser) # {}
       THEN hdOut' = "InvalidArgumentError" /\ hdFinal' = hdFinal
       ELSE hdOut' = "returned" /\ hdFinal' = validate_headers(hdUser)
    /\ UNCHANGED <<butHeaders, hdUser>>

NextHeaders == CallValidateHeaders

SpecHeaders == InitHeaders /\ [][NextHeaders]_vars

\* the three header names the spec reserves, in lower case
ReservedLower == {"accept-encoding", "range", "connection"}

\* C18 (as claimed): a call whose user headers contain a name equal,
\* ignoring case, to Accept-Encoding, Range or Connection fails with
\* InvalidArgument, and none of these three headers ever takes a
\* user-supplied value. The code reserves Accept-Encoding only.
C18_ReservedHeadersRejected ==
    /\ (hdOut # "none" /\ \E k \in DOMAIN hdUser : lower(k) \in ReservedLower)
          => hdOut = "InvalidArgumentError"
    /\ hdOut = "returned"
          => \A k \in DOMAIN hdFinal :
                lower(k) \in ReservedLower => hdFinal[k] # "user"

----------------------------------------------------------------------------
(* TurboDL.__init__: core.py lines 36-73, downloader.py lines 119-186 *)

MaxArgSlack == 2    \* ints are drawn from -MaxArgSlack .. 32 + MaxArgSlack

\* downloader.TurboDL accepts an explicit max_connections in 1..24
DL_MAX_CONNECTIONS_ARG == 24

StrChoices == {"auto", "8", "40", "fast"}
SpeedChoices == {0 - 1, 0, 1, 100}

\* str.isdigit() on those strings, and int() of the digit strings
isdigit(t) == t \in {"8", "40"}
int_of(t) == IF t = "8" THEN 8 ELSE 40

InitCtor ==
    /\ PartIdle /\ DlIdle /\ CoreIdle /\ AuxIdleBut("ctor")
    /\ ctType \in {"int", "str", "float", "NoneType"}
    /\ ctInt \in (0 - MaxArgSlack)..(MAX_CONNECTIONS_ARG + MaxArgSlack)
    /\ (ctType # "int" => ctInt = 0)
    /\ ctStr \in StrChoices \cup {""}
    /\ (ctType = "str" <=> ctStr # "")
    /\ ctSpeed \in SpeedChoices
    /\ ctOut = "none"
    /\ ctBy = "none"

\* core.py lines 51-57: the range is checked for an int only
CoreInit ==
    /\ ctOut = "none"
    /\ ctBy' = "core"
    /\ ctOut' = IF ctType = "int" /\ ~(1 <= ctInt /\ ctInt <= MAX_CONNECTIONS_ARG)
                THEN "InvalidArgumentError"
                ELSE IF ctSpeed <= 0 THEN "InvalidArgumentError"
                ELSE "constructed"
    /\ UNCHANGED <<butCtor, ctType, ctInt, ctStr, ctSpeed>>

\* downloader.py lines 162-170: a digit string is converted, then the value
\* must be 'auto' or an int in 1..24
DownloaderInit ==
    /\ ctOut = "none"
    /\ ctBy' = "downloader"
    /\ LET is_int == ctType = "int" \/ (ctType = "str" /\ isdigit(ctStr))
           value == IF ctType = "int" THEN ctInt
                    ELSE IF ctType = "str" /\ isdigit(ctStr) THEN int_of(ctStr)
                    ELSE 0
       IN ctOut' = IF ~((ctType = "str" /\ ctStr = "auto")
                        \/ (is_int /\ 1 <= value /\ value <= DL_MAX_CONNECTIONS_ARG))
                   THEN "InvalidArgumentError"
                   ELSE IF ctSpeed <= 0 THEN "InvalidArgumentError"
                   ELSE "constructed"
    /\ UNCHANGED <<butCtor, ctType, ctInt, ctStr, ctSpeed>>

NextCtor == CoreInit \/ DownloaderInit

SpecCtor == InitCtor /\ [][NextCtor]_vars

\* the arguments the spec accepts
ValidCtorArgs ==
    /\ \/ (ctType = "str" /\ ctStr = "auto")
       \/ (ctType = "int" /\ 1 <= ctInt /\ ctInt <= 32)
    /\ ctSpeed > 0

\* C19 (as claimed): constructing a downloader succeeds if and only if
\* max_connections is 'auto' or an integer in 1..32 and the speed is > 0;
\* every other argument is rejected with InvalidArgument. core.TurboDL
\* checks the range of an int only and accepts every value of another type.
C19_ConstructedIffValidArgs ==
    ctOut # "none"
        => /\ ctOut = "constructed" <=> ValidCtorArgs
           /\ ctOut # "constructed" => ctOut = "InvalidArgumentError"

----------------------------------------------------------------------------
(* The sizing model: utils.calculate_max_connections (lines 552-638) and
   functions.calculate_connections (lines 248-288). Reals are kept in
   thousandths; log10, exp, log2 and sqrt are tabulated to three decimals at
   the arguments the drawn sizes and speeds lead to. *)

\* size_mb = size_bytes / ONE_MB, in thousandths; 0 is a size under 1 KiB
SizeMbChoices ==
    {0, 500, 1000, 3000, 4500, 9000, 10000, 30000, 50000, 75000, 100000,
     300000, 500000, 750000, 1000000, 1001000, 3000000, 5000000, 5001000,
     8000000, 10000000, 50000000, 1000000000}
SpeedMbpsChoices == {1, 10, 19, 50, 100, 101, 301, 500, 1000}

log10_milli ==
    1500 :> 176 @@ 1700 :> 230 @@ 1800 :> 255 @@ 1850 :> 267 @@
    1900 :> 279 @@ 1901 :> 279 @@ 1950 :> 290 @@ 2000 :> 301 @@
    2200 :> 342 @@ 2350 :> 371 @@ 2550 :> 407 @@ 3500 :> 544 @@
    3800 :> 580 @@ 3900 :> 591 @@ 4000 :> 602 @@ 5500 :> 740 @@
    10000 :> 1000
exp_milli ==
    (0 - 50000) :> 0 @@ (0 - 6000) :> 2 @@ (0 - 3015) :> 49 @@
    (0 - 2500) :> 82 @@ (0 - 500) :> 607 @@ (0 - 15) :> 985 @@
    0 :> 1000 @@ 750 :> 2117 @@ 1215 :> 3370 @@ 1350 :> 3857
log2_milli ==
    1000 :> 0 @@ 1500 :> 585 @@ 2000 :> 1000 @@ 4000 :> 2000 @@
    5500 :> 2459 @@ 10000 :> 3322 @@ 11000 :> 3459 @@ 31000 :> 4954 @@
    51000 :> 5672 @@ 76000 :> 6248 @@ 101000 :> 6658 @@ 301000 :> 8234 @@
    501000 :> 8969 @@ 751000 :> 9553 @@ 1001000 :> 9967 @@
    1002000 :> 9969 @@ 3001000 :> 11551 @@ 5001000 :> 12288 @@
    5002000 :> 12288 @@ 8001000 :> 12966 @@ 10001000 :> 13288 @@
    50001000 :> 15610 @@ 1000001000 :> 19932
sqrt_milli ==
    10 :> 100 @@ 100 :> 316 @@ 190 :> 436 @@ 500 :> 707 @@
    1000 :> 1000 @@ 1010 :> 1005 @@ 3010 :> 1735 @@ 5000 :> 2236 @@
    10000 :> 3162
\* lines 576-608: base_conn
base_conn(mb) ==
    IF mb < 1000 THEN 2000
    ELSE IF mb < 10000 THEN 2000 + (12 * log10_milli[mb + 1000]) \div 10
    ELSE IF mb < 50000 THEN 4000 + 2 * log10_milli[mb \div 10 + 500]
    ELSE IF mb < 100000 THEN 6000 + (25 * log10_milli[mb \div 50 + 700]) \div 10
    ELSE IF mb < 500000 THEN 8000 + 3 * log10_milli[mb \div 100 + 800]
    ELSE IF mb < 1000000 THEN 12000 + (35 * log10_milli[mb \div 500 + 850]) \div 10
    ELSE IF mb < 5000000 THEN 16000 + 4 * log10_milli[mb \div 1000 + 900]
    ELSE IF mb < 10000000 THEN 18000 + (45 * log10_milli[mb \div 5000 + 950]) \div 10
    ELSE 20000 + 4 * (1000 - exp_milli[0 - (mb \div 20000)])

\* lines 613-620: speed_factor
speed_factor(speed) ==
    IF speed < 10 THEN 800
    ELSE LET sigmoid == (1000 * 1000)
                           \div (1000 + exp_milli[0 - 15 * (Min(speed, 500) - 100)])
         IN 800 + (7 * sigmoid) \div 10

\* lines 622-635: adjusted_conn after the fine-tuning
adjusted_conn(mb, speed) ==
    LET adjusted == (base_conn(mb) * speed_factor(speed)) \div 1000
    IN IF mb < 5000 /\ speed > 100 THEN Min(adjusted, 4000 + mb \div 2)
       ELSE IF mb > 1000000 /\ speed < 20
       THEN Min((adjusted * 12) \div 10, 1000 * MAX_CONNECTIONS)
       ELSE IF mb > 5000000 /\ speed > 300
       THEN Min((adjusted * 11) \div 10, 1000 * MAX_CONNECTIONS)
       ELSE adjusted

\* round(): to the nearest integer, a tie to the even one
py_round(x) ==
    LET q == x \div 1000
        r == x % 1000
    IN IF r > 500 \/ (r = 500 /\ q % 2 = 1) THEN q + 1 ELSE q

\* math.ceil()
py_ceil(x) == (x + 999) \div 1000

\* a result that is not clamped (a mutant of clamp_connections)
unclamped_connections(n) == n

\* line 638 and functions.py line 288: max(2, min(24, n))
clamp_connections(n) == Max(MIN_CONNECTIONS, Min(MAX_CONNECTIONS, n))

calculate_max_connections(mb, speed) ==
    clamp_connections(py_round(adjusted_conn(mb, speed)))

\* functions.py lines 276-288: 5.6 * log2(1 + mb) * sqrt(speed / 100)
calculate_connections(mb, speed) ==
    LET conn_float ==
            (((5600 * log2_milli[1000 + mb]) \div 1000) * sqrt_milli[10 * speed])
                \div 1000
    IN clamp_connections(py_ceil(conn_float))

InitSizing ==
    /\ PartIdle /\ DlIdle /\ CoreIdle /\ AuxIdleBut("sizing")
    /\ szMb \in SizeMbChoices
    /\ szSpeed \in SpeedMbpsChoices
    /\ szFn = "none"
    /\ szOut = 0
    /\ szAgain = 0

CallCalculateMaxConnections ==
    /\ szFn = "none"
    /\ szFn' = "calculate_max_connections"
    /\ szOut' = calculate_max_connections(szMb, szSpeed)
    /\ UNCHANGED <<butSizing, szMb, szSpeed, szAgain>>

CallCalculateConnections ==
    /\ szFn = "none"
    /\ szFn' = "calculate_connections"
    /\ szOut' = calculate_connections(szMb, szSpeed)
    /\ UNCHANGED <<butSizing, szMb, szSpeed, szAgain>>

\* the same function is called again with the same arguments
CallSizingAgain ==
    /\ szFn # "none"
    /\ szAgain = 0
    /\ szAgain' = IF szFn = "calculate_max_connections"
                  THEN calculate_max_connections(szMb, szSpeed)
                  ELSE calculate_connections(szMb, szSpeed)
    /\ UNCHANGED <<butSizing, szMb, szSpeed, szFn, szOut>>

NextSizing ==
    \/ CallCalculateMaxConnections
    \/ CallCalculateConnections
    \/ CallSizingAgain

SpecSizing == InitSizing /\ [][NextSizing]_vars

----------------------------------------------------------------------------
(* Claims about the RAM-buffered workers (checked under SpecDl) *)

\* the bytes the ChunkBuffers of the workers in S hold (their current_size)
RECURSIVE HeldBytes(_)
HeldBytes(S) ==
    IF S = {} THEN 0
    ELSE LET w == CHOOSE x \in S : TRUE
         IN chunk_buffers[w].current_size + HeldBytes(S \ {w})

\* C21 (as claimed): at every moment of a buffered-mode download the sum over
\* all workers of the bytes held in their ChunkBuffers is at most
\* min(configured cap, 30% of the available RAM), for every number of
\* workers. Every worker creates a ChunkBuffer of its own with that cap, so
\* the cap bounds each buffer and not their sum. The bound compared with is
\* the largest cap any of the buffers was given.
C21_HeldBytesWithinCap ==
    (use_ram_buffer /\ DOMAIN chunk_buffers # {})
        => \E w \in DOMAIN chunk_buffers :
              10 * HeldBytes(DOMAIN chunk_buffers) <= chunk_buffers[w].max_buffer_size10

----------------------------------------------------------------------------
(* Where core.TurboDL.download puts the file: core.py lines 174-217 and
   279-280, with the file name of utils.fetch_file_info (lines 466-497).
   A name is its stem followed by its suffix; a path is the names of the
   directories leading to it and its own name. *)

\* the directory /d and the file /d/f.bin the output_path argument may name
DirPath == [dirs |-> <<>>, name |-> <<"d", "">>]
FilePath == [dirs |-> << <<"d", "">> >>, name |-> <<"f", ".bin">>]

\* a file name as a server or a URL spells it: a relative or absolute path
NoFilename == [abs |-> FALSE, dirs |-> <<>>, name |-> <<>>]
Plain(name) == [abs |-> FALSE, dirs |-> <<>>, name |-> name]

\* the file names a Content-Disposition header may carry: none, y.bin,
\* ../y.bin and /etc/y.bin
DispositionChoices ==
    { NoFilename,
      Plain(<<"y", ".bin">>),
      [abs |-> FALSE, dirs |-> << <<"..", "">> >>, name |-> <<"y", ".bin">>],
      [abs |-> TRUE, dirs |-> << <<"etc", "">> >>, name |-> <<"y", ".bin">>] }
\* Path(unquote(path)).name of the URL: x.bin, x, or none for the path "/"
UrlNameChoices == { Plain(<<"x", ".bin">>), Plain(<<"x", "">>), NoFilename }
\* guess_mimetype_extension(content_type): None or an extension
ExtensionChoices == {"", ".zip"}

\* "." in filename
has_dot(f) == suffix(f.name) # "" \/ \E i \in DOMAIN f.dirs : f.dirs[i][1] = ".."

\* utils.fetch_file_info lines 466-497: the Content-Disposition name, else
\* the name in the URL, else unknown_file; a name without a dot gets the
\* extension guessed from the content type
resolve_filename(r) ==
    LET f1 == IF r.disposition # NoFilename THEN r.disposition ELSE r.url_name
        f2 == IF f1 # NoFilename THEN f1 ELSE Plain(<<"unknown_file", "">>)
    IN IF ~has_dot(f2) /\ r.ext # ""
       THEN [f2 EXCEPT !.name = stem(f2.name) \o <<r.ext>>]
       ELSE f2

\* the directories and the name of a path, in order
parts(p) == p.dirs \o <<p.name>>

\* "<p>/<f>" read as one string: f is appended to p
path_concat(p, f) == [dirs |-> parts(p) \o f.dirs, name |-> f.name]

\* pathlib's Path(p, f): an absolute f replaces p
path_join(p, f) ==
    IF f.abs THEN [dirs |-> f.dirs, name |-> f.name]
    ELSE [dirs |-> parts(p) \o f.dirs, name |-> f.name]

\* the characters of a name, then of a list of names joined by "/"
RECURSIVE name_chars(_)
name_chars(n) == IF n = <<>> THEN <<>> ELSE <<n[1]>> \o name_chars(Tail(n))
RECURSIVE slash_join(_)
slash_join(ns) ==
    IF ns = <<>> THEN <<>>
    ELSE <<"/">> \o name_chars(ns[1]) \o slash_join(Tail(ns))

\* Path.as_posix() of an absolute path
as_posix(p) == slash_join(parts(p))

\* the files that may exist before the call
ExistingChoices ==
    SUBSET { path_join(DirPath, Plain(<<"x", ".bin">>)),
             path_join(DirPath, Plain(<<"x", "_", "1", ".bin">>)),
             path_join(DirPath, Plain(<<"y", ".bin">>)) }

InitOut ==
    /\ PartIdle /\ DlIdle /\ CoreIdle /\ AuxIdleBut("out")
    /\ opPc = "start"
    /\ opKind \in {"dir", "file", "missing"}
    /\ opOverwrite \in BOOLEAN
    /\ \E e \in ExistingChoices :
          opExisting = IF opKind = "file" THEN e \cup {FilePath} ELSE e
    /\ opResponse \in [disposition : DispositionChoices,
                       url_name : UrlNameChoices,
                       ext : ExtensionChoices]
    /\ opFilename = NoFilename
    /\ opPath = NoPath
    /\ opCounter = 0
    /\ opWritten = NoPath
    /\ opAttr = <<>>

\* line 174: self._output_path = Path(output_path).resolve()
OutEnter ==
    /\ opPc = "start"
    /\ opPath' = IF opKind = "dir" THEN DirPath ELSE FilePath
    /\ opPc' = "entered"
    /\ UNCHANGED <<butOut, opKind, opOverwrite, opExisting, opResponse,
                   opFilename, opCounter, opWritten, opAttr>>

\* lines 183-185: the probe returns; filename = remote_file_info.filename
OutFetchFileInfo ==
    /\ opPc = "entered"
    /\ opFilename' = resolve_filename(opResponse)
    /\ opPc' = "probed"
    /\ UNCHANGED <<butOut, opKind, opOverwrite, opExisting, opResponse,
                   opPath, opCounter, opWritten, opAttr>>

\* lines 201-207: the free-space check, then the file name is joined to a
\* directory
OutSpaceCheck ==
    /\ opPc = "probed"
    /\ \E has_space \in BOOLEAN :
          IF has_space
          THEN /\ opPc' = "named"
               /\ opPath' = IF opKind = "dir"
                            THEN path_join(opPath, opFilename) ELSE opPath
          ELSE /\ opPc' = "raised"
               /\ opPath' = opPath
    /\ UNCHANGED <<butOut, opKind, opOverwrite, opExisting, opResponse,
                   opFilename, opCounter, opWritten, opAttr>>

\* lines 209-213: with overwrite the path is kept; else counter = 1
OutOverwriteStart ==
    /\ opPc = "named"
    /\ IF opOverwrite
       THEN opPc' = "chosen" /\ opCounter' = opCounter
       ELSE opPc' = "loop" /\ opCounter' = 1
    /\ UNCHANGED <<butOut, opKind, opOverwrite, opExisting, opResponse,
                   opFilename, opPath, opWritten, opAttr>>

\* the name of self._output_path when the overwrite handling starts (the
\* base_name and extension of lines 211-212 are its stem and suffix)
name_before_loop == IF opKind = "dir" THEN opFilename.name ELSE FilePath.name

\* lines 215-217: while the path exists, take the next numbered name; the
\* stem and the extension are those of the path before the loop
OutOverwriteLoop ==
    /\ opPc = "loop"
    /\ IF opPath \in opExisting
       THEN /\ opPath' = [opPath EXCEPT !.name =
                  numbered_name(stem(name_before_loop), opPath.name, opCounter,
                                suffix(name_before_loop))]
            /\ opCounter' = opCounter + 1
            /\ opPc' = opPc
       ELSE /\ opPc' = "chosen"
            /\ UNCHANGED <<opPath, opCounter>>
    /\ UNCHANGED <<butOut, opKind, opOverwrite, opExisting, opResponse,
                   opFilename, opWritten, opAttr>>

\* lines 219-233: the file is created at self._output_path
OutAllocate ==
    /\ opPc = "chosen"
    /\ opWritten' = opPath
    /\ opExisting' = opExisting \cup {opPath}
    /\ opPc' = "fetching"
    /\ UNCHANGED <<butOut, opKind, opOverwrite, opResponse, opFilename,
                   opPath, opCounter, opAttr>>

\* lines 266-277: the fetch raises; _cleanup unlinks self._output_path
OutFetchRaises ==
    /\ opPc = "fetching"
    /\ opExisting' = opExisting \ {opPath}
    /\ opPc' = "raised"
    /\ UNCHANGED <<butOut, opKind, opOverwrite, opResponse, opFilename,
                   opPath, opCounter, opWritten, opAttr>>

\* lines 266-280: the fetch returns; self.output_path = as_posix()
OutFetchReturns ==
    /\ opPc = "fetching"
    /\ opAttr' = as_posix(opPath)
    /\ opPc' = "returned"
    /\ UNCHANGED <<butOut, opKind, opOverwrite, opExisting, opResponse,
                   opFilename, opPath, opCounter, opWritten>>

NextOut ==
    \/ OutEnter
    \/ OutFetchFileInfo
    \/ OutSpaceCheck
    \/ OutOverwriteStart
    \/ OutOverwriteLoop
    \/ OutAllocate
    \/ OutFetchRaises
    \/ OutFetchReturns

SpecOut == InitOut /\ [][NextOut]_vars

\* C22 (as claimed): when output_path is an existing directory, a successful
\* download writes the file at <directory>/<filename resolved by the probe>,
\* and afterwards the instance's output_path attribute is that file's path in
\* string form. Checked for the calls that keep the name (overwrite, or no
\* file of that name existed). The file name of a Content-Disposition header
\* is joined unchecked: an absolute one replaces the directory.
C22_FileInsideDirectory ==
    (/\ opPc = "returned"
     /\ opKind = "dir"
     /\ (opOverwrite \/ opCounter = 1))
        => /\ opWritten = path_concat(DirPath, opFilename)
           /\ opWritten \in opExisting
           /\ opAttr = as_posix(path_concat(DirPath, opFilename))

----------------------------------------------------------------------------
(* Further claims about core.TurboDL.download (checked under SpecCore) *)

\* C23 (as claimed): after a download call that fails with a fetch error, an
\* interruption or a hash mismatch, the instance's output_path attribute is
\* None, also when an earlier call on the instance had succeeded. _cleanup
\* does not touch output_path, and it is set before the hash is verified.
C23_FailedCallClearsOutputPath ==
    (/\ pc = "raised"
     /\ result \in {"DownloadError", "DownloadInterruptedError",
                    "HashVerificationError"})
        => output_path = "None"

\* C24 (as claimed): for every download call that aborts from a non-terminal
\* state (probe failure, not enough space, allocation or fetch failure, hash
\* mismatch, signal), _cleanup is executed exactly once. The probe, the space
\* check and the hash verification raise outside the try block of download:
\* no cleanup runs for them.
C24_CleanupExactlyOnce ==
    (\/ pc = "raised"
     \/ (pc = "exited" /\ interrupted_at \notin {"idle", "returned", "raised"}))
        => cleanups = 1

\* the steps of one download call, in the order of the code
StepRank ==
    [entered |-> 0, probed |-> 1, planned |-> 2, checked |-> 3,
     fetching |-> 4, fetched |-> 5, returned |-> 6]

----------------------------------------------------------------------------
(* Claims about ChunkBuffer and the workers' writes (checked under SpecDl) *)

\* C26 (as claimed): after any sequence of write calls on a worker's
\* ChunkBuffer, current_size <= max_buffer_size and total_buffered <= the
\* length of that worker's range. write compares total_buffered with the
\* size of the whole file, not with the worker's range.
C26_BufferWithinCapAndRange ==
    \A w \in DOMAIN chunk_buffers :
        /\ 10 * chunk_buffers[w].current_size <= chunk_buffers[w].max_buffer_size10
        /\ chunk_buffers[w].total_buffered <= RangeLen(ranges[w])

\* worker w hands the block it holds to its ChunkBuffer in this step
WritesBlock(w) ==
    /\ use_ram_buffer
    /\ w \in DOMAIN chunk_buffers
    /\ workers[w].pc = "have"
    /\ workers'[w].pc # "have"

\* C27: ChunkBuffer.write refuses a block exactly when current_size + len >
\* max_buffer_size, or total_buffered + len > max_buffer_size, or
\* total_buffered + len > file_size; a refused write returns None (nothing is
\* written to the file) and leaves current_size, total_buffered and the
\* buffered bytes unchanged.
C27_RefusesExactlyOnOverflow ==
    [][\A w \in DOMAIN workers :
          WritesBlock(w) =>
            LET cb == chunk_buffers[w]
                n == Len(workers[w].data)
                over == \/ 10 * (cb.current_size + n) > cb.max_buffer_size10
                        \/ 10 * (cb.total_buffered + n) > cb.max_buffer_size10
                        \/ cb.total_buffered + n > total_size
            IN IF over
               THEN /\ chunk_buffers'[w] = cb
                    /\ file' = file
                    /\ write_positions' = write_positions
               ELSE chunk_buffers'[w].total_buffered = cb.total_buffered + n
      ]_vars

\* a worker in whose buffer an earlier block was accepted and a later one
\* refused
C27_Witness ==
    \E w \in DOMAIN chunk_buffers :
        /\ use_ram_buffer
        /\ workers[w].pc = "iter"
        /\ chunk_buffers[w].total_buffered > 0
        /\ chunk_buffers[w].total_buffered < workers[w].rpos

\* C28: an accepted ChunkBuffer.write returns a blob if and only if, after
\* appending, current_size >= chunk_size or total_buffered >= file_size or
\* current_size >= max_buffer_size; the blob is exactly the bytes accepted
\* since the previous emission, in order; the emission resets current_size
\* to 0 and leaves total_buffered unchanged, so total_buffered equals the
\* lengths of all emitted blobs plus current_size.
C28_EmitsExactlyWhenFull ==
    [][\A w \in DOMAIN workers :
          (/\ WritesBlock(w)
           /\ chunk_buffers'[w].total_buffered # chunk_buffers[w].total_buffered)
          =>
            LET cb == chunk_buffers[w]
                data == workers[w].data
                size_after == cb.current_size + Len(data)
                total_after == cb.total_buffered + Len(data)
                emits == \/ size_after >= cb.chunk_size
                         \/ total_after >= total_size
                         \/ 10 * size_after >= cb.max_buffer_size10
                blob == cb.current_buffer \o data
            IN /\ chunk_buffers'[w].total_buffered = total_after
               /\ Len(cb.current_buffer) = cb.current_size
               /\ IF emits
                  THEN /\ chunk_buffers'[w].current_size = 0
                       /\ chunk_buffers'[w].current_buffer = <<>>
                       /\ workers'[w].pc # "failed"
                            => /\ workers'[w].written = workers[w].written \o blob
                               /\ write_positions'[w] = write_positions[w] + Len(blob)
                               /\ total_after = write_positions'[w]
                  ELSE /\ chunk_buffers'[w].current_size = size_after
                       /\ chunk_buffers'[w].current_buffer = blob
                       /\ file' = file
                       /\ write_positions' = write_positions
                       /\ total_after = write_positions[w] + size_after
      ]_vars

\* a buffer that has emitted a blob and holds bytes accepted after it
C28_Witness ==
    \E w \in DOMAIN chunk_buffers :
        /\ use_ram_buffer
        /\ workers[w].pc = "iter"
        /\ write_positions[w] > 0
        /\ chunk_buffers[w].current_size > 0
        /\ chunk_buffers[w].total_buffered
              = write_positions[w] + chunk_buffers[w].current_size

----------------------------------------------------------------------------
(* The write lock of the direct workers: the download in direct mode, with
   the scheduling of the worker threads. A thread that can take a step is eventually scheduled,
   and threading.Lock hands a free lock to a thread that waits for it. *)

\* a download called with use_ram_buffer=False
DlFetchFileInfoDirect == DlFetchFileInfo /\ ~use_ram_buffer'

NextDirect ==
    \/ DlFetchFileInfoDirect
    \/ DlFetchFileInfoRaises
    \/ DlSpaceCheck
    \/ DlAllocate
    \/ DlAllocateRaises
    \/ DlSubmit
    \/ CoordJoin
    \/ CoordJoinRaises
    \/ CoordAllJoined
    \/ DlKeyboardInterrupt
    \/ DlExceptKeyboardInterrupt
    \/ DlExceptException
    \/ DlVerifyHash
    \/ \E w \in Workers : DirectRequest(w)
    \/ \E w \in Workers : WorkerRead(w)
    \/ \E w \in Workers : WorkerStreamRaises(w)
    \/ \E w \in Workers : DirectStreamEnd(w)
    \/ \E w \in Workers : DirectAcquire(w)
    \/ \E w \in Workers : DirectWrite(w)

SpecDirect ==
    /\ InitDl /\ [][NextDirect]_vars
    /\ \A w \in 1..MaxSize :
          /\ WF_vars(w \in Workers /\ DirectAcquire(w))
          /\ WF_vars(w \in Workers /\ DirectWrite(w))

\* worker w waits for the write lock
WaitsForLock(w) ==
    /\ w \in Workers
    /\ ~use_ram_buffer
    /\ workers[w].pc = "have"

\* C29: in direct mode at most one worker is inside the seek+write section at
\* any time; the lock is held for one seek+write pair only and is released
\* also when the open or the write raises; and a worker waiting for the lock
\* eventually acquires it, so the workers never deadlock on it.
C29_WriteLockExclusiveAndLive ==
    /\ [](\A w \in Workers : workers[w].pc = "locked" <=> write_lock = w)
    /\ [][\A w \in Workers :
             (workers[w].pc = "locked" /\ workers'[w] # workers[w])
                => (write_lock' = 0 /\ workers'[w].pc \in {"iter", "failed"})]_vars
    /\ \A w \in 1..MaxSize :
          WaitsForLock(w) ~> (w \in Workers /\ workers[w].pc = "locked")

\* one worker is inside the section while another waits for the lock
C29_Witness ==
    \E w1, w2 \in Workers :
        /\ ~use_ram_buffer
        /\ w1 # w2
        /\ write_lock = w1
        /\ workers[w1].pc = "locked"
        /\ workers[w2].pc = "have"

----------------------------------------------------------------------------
(* The offsets the workers write (checked under SpecDl) *)

\* C30 (as claimed): in both modes every write of a worker covers only
\* offsets inside that worker's own range [start, end]: its write position
\* starts at the range start and grows by the bytes of each successful
\* write, never past the range end, whatever number of bytes the response
\* delivers; so two workers never write the same file offset. Neither worker
\* compares its write position with the end of its range.
C30_WritesInsideOwnRange ==
    \A w \in Workers :
        ranges[w][1] + Len(workers[w].written) <= ranges[w][2] + 1

----------------------------------------------------------------------------
(* The tenacity retry of a ranged request: utils.download_retry_decorator
   (lines 66-106) and the decorated downloader._download_chunk (lines
   188-237) *)

RETRY_ATTEMPTS == 5     \* stop_after_attempt(5)

\* how one attempt may end: normally, or with an exception of httpx
AttemptOutcomes ==
    {"ok", "ConnectError", "ConnectTimeout", "ReadTimeout", "WriteTimeout",
     "RemoteProtocolError", "HTTPStatusError"}

\* the base class of an exception that matters to the retry conditions
exception_base(e) ==
    IF e \in {"ConnectTimeout", "ReadTimeout", "WriteTimeout"}
    THEN "TimeoutException" ELSE "Exception"

\* isinstance(e, types)
isinstance(e, types) == e \in types \/ exception_base(e) \in types

\* utils.py lines 82-88: retry_if_exception_type((...))
DECORATOR_RETRY_TYPES ==
    {"ConnectError", "ConnectTimeout", "ReadTimeout", "RemoteProtocolError",
     "TimeoutException"}

\* what the retried function raises when its request ended with e:
\* _download_chunk turns HTTPStatusError into DownloadError (lines 235-237)
raised_by(fn, e) ==
    IF fn = "_download_chunk" /\ e = "HTTPStatusError"
    THEN "DownloadError" ELSE e

\* tenacity's retry condition: the decorator of utils names the exception
\* types; the @retry of _download_chunk (line 188) names none, and tenacity
\* then retries after every exception
retry_condition(fn, e) ==
    IF fn = "download_retry_decorator"
    THEN isinstance(e, DECORATOR_RETRY_TYPES)
    ELSE isinstance(e, {"Exception"})

InitRetry ==
    /\ PartIdle /\ DlIdle /\ CoreIdle /\ AuxIdleBut("retry")
    /\ rtFn \in {"download_retry_decorator", "_download_chunk"}
    /\ rtPc = "calling"
    /\ rtLog = <<>>
    /\ rtResult = "none"

\* one attempt: the function returns, or raises and tenacity either starts
\* another attempt or, after the last one, re-raises (reraise=True)
RetryAttempt ==
    /\ rtPc = "calling"
    /\ \E o \in AttemptOutcomes :
          LET e == raised_by(rtFn, o)
          IN /\ rtLog' = Append(rtLog, o)
             /\ IF o = "ok"
                THEN rtPc' = "returned" /\ rtResult' = "bytes"
                ELSE IF retry_condition(rtFn, e) /\ Len(rtLog) + 1 < RETRY_ATTEMPTS
                THEN rtPc' = rtPc /\ rtResult' = rtResult
                ELSE rtPc' = "raised" /\ rtResult' = e
    /\ UNCHANGED <<butRetry, rtFn>>

NextRetry == RetryAttempt

SpecRetry == InitRetry /\ [][NextRetry]_vars

\* C31 (as claimed): a ranged request that fails with a non-retryable HTTP
\* status (for example 404) is attempted exactly once: no attempt follows
\* it, in the retry decorator of utils and in the retried _download_chunk.
\* The @retry of _download_chunk has no retry condition: the DownloadError
\* made from the status error is retried like any exception.
C31_StatusErrorNotRetried ==
    \A i \in DOMAIN rtLog : rtLog[i] = "HTTPStatusError" => i = Len(rtLog)

----------------------------------------------------------------------------
(* The partitioners on an empty file *)

\* C32 (as claimed): for size = 0 and any connection count >= 1 the
\* partitioner returns exactly the one range (0, 0).
\* functions.get_chunk_ranges does (lines 400-402); the loop of
\* utils.generate_chunk_ranges never runs for size 0 and returns no range.
C32_EmptyFileOneRange ==
    (pFn # "none" /\ pSize = 0) => pRanges = << <<0, 0>> >>

----------------------------------------------------------------------------
(* Hash verification: utils.verify_hash (lines 641-679) and the end of
   downloader's download (lines 628-645) *)

\* the hash_type values the signatures list (core.py lines 126-141)
HASH_TYPES ==
    <<"md5", "sha1", "sha224", "sha256", "sha384", "sha512", "blake2b",
      "blake2s", "sha3_224", "sha3_256", "sha3_384", "sha3_512",
      "shake_128", "shake_256">>

\* the digest of content f under an algorithm: each algorithm gives its own
type_digest(hash_type, f) ==
    LET k == CHOOSE i \in DOMAIN HASH_TYPES : HASH_TYPES[i] = hash_type
    IN  (hexdigest(f) + k) % HashMod

\* hasher.hexdigest() with no argument: the shake algorithms have no fixed
\* digest length and their hexdigest requires one (TypeError)
hexdigest_needs_length(hash_type) == hash_type \in {"shake_128", "shake_256"}

\* what the verification returns or raises
verify_outcome(fn, hash_type, f, expected) ==
    IF fn = "verify_hash" /\ f = <<>>
    THEN "ValueError"                  \* mmap(f.fileno(), 0) of an empty file
    ELSE IF hexdigest_needs_length(hash_type)
    THEN "TypeError"                   \* hasher.hexdigest()
    ELSE IF type_digest(hash_type, f) # expected
    THEN "HashVerificationError"
    ELSE "None"

InitVerify ==
    /\ PartIdle /\ DlIdle /\ CoreIdle /\ AuxIdleBut("verify")
    /\ vhFn \in {"verify_hash", "download"}
    /\ vhType \in {HASH_TYPES[i] : i \in DOMAIN HASH_TYPES}
    /\ \E size \in 0..MaxSize :
          /\ vhFile = RemoteFile(size)
          /\ vhExpected \in {type_digest(vhType, vhFile),
                             (type_digest(vhType, vhFile) + 1) % HashMod}
    /\ vhResult = "pending"

VerifyHash ==
    /\ vhResult = "pending"
    /\ vhResult' = verify_outcome(vhFn, vhType, vhFile, vhExpected)
    /\ UNCHANGED <<butVerify, vhFn, vhType, vhFile, vhExpected>>

NextVerify == VerifyHash

SpecVerify == InitVerify /\ [][NextVerify]_vars

\* C33 (as claimed): for every hash_type of the supported list the
\* verification has exactly two outcomes: it returns normally when the
\* file's digest equals expected_hash and raises HashVerificationError
\* otherwise; no other error comes out of it.
\* hexdigest() of shake_128 and shake_256 raises TypeError, and the mmap of
\* utils.verify_hash raises ValueError on an empty file.
C33_VerifyTwoOutcomes ==
    vhResult \notin {"off", "pending"} =>
        vhResult = IF type_digest(vhType, vhFile) = vhExpected
                   THEN "None" ELSE "HashVerificationError"

----------------------------------------------------------------------------
(* What _cleanup unlinks *)

\* C34 (as claimed): whenever cleanup can run -- on the exception path of a
\* call or in the SIGINT/SIGTERM handler before, during or after a download
\* call -- the path it unlinks is the partial output of a download in
\* progress; here: a signal that arrives after a download call returned
\* leaves the completed file in place.
\* self._output_path still names the completed file after the call, and the
\* handler's _cleanup unlinks it.
C34_CleanupSparesCompletedFile ==
    (exit_status = 0 /\ interrupted_at = "returned") => fileExists

----------------------------------------------------------------------------
(* A download onto a path where a longer file already exists
   (overwrite=True: the renaming loop of lines 543-556 is skipped) *)

InitOverwrite ==
    /\ AuxIdle
    /\ PartIdle
    /\ CoreIdle
    /\ pc = "start"
    /\ max_connections \in 1..MaxConn
    /\ use_ram_buffer = FALSE /\ total_size = 0
    /\ ranges = <<>> /\ workers = <<>>
    /\ chunk_buffers = <<>> /\ write_positions = <<>>
    /\ write_lock = 0 /\ joinIdx = 0 /\ pending = "none"
    /\ fileExists = TRUE /\ file = Stale(MaxSize + 1) /\ output_path = "None"
    /\ result = "none" /\ expected_hash = NoHash /\ file_hash = NoHash
    /\ faults = 0

SpecOverwrite == InitOverwrite /\ [][NextDirect]_vars

\* C35 (as claimed): a successful download with overwrite=true and
\* pre_allocate_space=false onto a path where a longer file already exists
\* leaves a file of length exactly size that holds only remote bytes.
\* touch(exist_ok=True) keeps the old content and the workers open the file
\* "r+b" and write inside [0, size): the old tail stays.
C35_OverwriteLeavesOnlyRemote ==
    (/\ FetchSucceeded
     /\ \A w \in Workers : DeliveredExactly(w))
        => (Len(file) = total_size /\ FileHoldsRemote)

----------------------------------------------------------------------------
(* max_connections='auto' over the calls of one core.TurboDL instance
   (core.py lines 59-61 and 195-198); sizes in thousandths of a megabyte as
   in the sizing model *)

\* the max_connections argument: 'auto' or an integer
AutoSetting == [auto |-> TRUE, n |-> 0]
IntSetting(k) == [auto |-> FALSE, n |-> k]

InitAuto ==
    /\ PartIdle /\ DlIdle /\ CoreIdle /\ AuxIdleBut("auto")
    /\ acArg \in {AutoSetting} \cup {IntSetting(k) : k \in 1..MaxConn}
    /\ acMax = acArg
    /\ acSpeed \in SpeedMbpsChoices
    /\ acSize = 0
    /\ acUsed = 0
    /\ acCalls = 0

\* lines 195-198 of one download call: when the attribute is 'auto' it is
\* assigned the count computed for this call's size; the partitioner gets
\* the attribute
AutoDownload ==
    /\ acCalls < MaxCalls
    /\ \E size \in SizeMbChoices \ {0} :
          /\ acSize' = size
          /\ acMax' = IF acMax.auto
                      THEN IntSetting(calculate_max_connections(size, acSpeed))
                      ELSE acMax
          /\ acUsed' = acMax'.n
    /\ acCalls' = acCalls + 1
    /\ UNCHANGED <<butAuto, acArg, acSpeed>>

NextAuto == AutoDownload

SpecAuto == InitAuto /\ [][NextAuto]_vars

\* C36 (as claimed): with max_connections='auto', every download call
\* derives its connection count from the size of that call's file; the count
\* of an earlier call is never reused.
\* The first call stores its count in self._max_connections, which is then
\* no longer 'auto': every later call partitions with the first call's count.
C36_AutoCountFromOwnSize ==
    (acArg.auto /\ acCalls >= 1)
        => acUsed = calculate_max_connections(acSize, acSpeed)

----------------------------------------------------------------------------
(* The client's headers over the calls of one core.TurboDL instance
   (core.py lines 65-69 and 162-163) *)

\* the header values a caller may pass
UserValues == {"a", "b"}

\* the headers arguments a caller may pass
UserHeaderChoices ==
    UNION { [keys -> UserValues] : keys \in SUBSET {"X-Token", "User-Agent", "Accept-Encoding"} }

\* a dict of headers as the case-insensitive httpx.Headers holds it
lower_keyed(h) ==
    [lk \in {lower(k) : k \in DOMAIN h} |->
        h[CHOOSE k \in DOMAIN h : lower(k) = lk]]

\* httpx.Headers.update: the given headers replace those of the same name,
\* every other header stays
headers_update(client, h) == dict_update(client, lower_keyed(h))

\* Client(...) at lines 65-69: the headers httpx gives every client
InitSession ==
    /\ PartIdle /\ DlIdle /\ CoreIdle /\ AuxIdleBut("session")
    /\ ssClient = [k \in {"accept", "accept-encoding", "connection", "user-agent"}
                     |-> "httpx"]
    /\ ssUser = <<>>
    /\ ssOut = "none"
    /\ ssCalls = 0

\* lines 162-163 of one download call
SessionDownload ==
    /\ ssCalls < MaxCalls
    /\ ssCalls' = ssCalls + 1
    /\ \E headers \in UserHeaderChoices :
          /\ ssUser' = headers
          /\ IF conflicts(headers) # {}
             THEN ssOut' = "InvalidArgumentError" /\ ssClient' = ssClient
             ELSE /\ ssOut' = "updated"
                  /\ ssClient' = headers_update(ssClient, validate_headers(headers))
    /\ UNCHANGED butSession

NextSession == SessionDownload

SpecSession == InitSession /\ [][NextSession]_vars

\* C37 (as claimed): the user headers passed to one download call apply to
\* that call only: a user-supplied value the client sends in a call was
\* passed to that call.
\* headers.update() keeps on the client every header of the earlier calls
\* that the latest call does not name.
C37_UserHeadersOfThisCallOnly ==
    ssOut = "updated" =>
        \A k \in DOMAIN ssClient :
            ssClient[k] \in UserValues =>
                \E u \in DOMAIN ssUser : lower(u) = k /\ ssUser[u] = ssClient[k]

----------------------------------------------------------------------------
(* The instance after a failed download call *)

\* C38 (as claimed): the instance stays usable after a failed download
\* (an error during allocation or fetching): a later call can still probe,
\* fetch and succeed; here: no later call is refused at its probe because
\* the instance's HTTP client is closed.
\* _cleanup closes self._http_client on the failure path and nothing opens a
\* new one: every later call raises at the probe's first request.
C38_LaterCallNotRefused ==
    ~(calls >= 2 /\ pc = "raised" /\ result = "RuntimeError")

----------------------------------------------------------------------------
(* The end of a download call and its worker threads *)

\* lines 446-452 / 357-376 and 617-621: while the with block's __exit__
\* waits in shutdown(wait=True) for the workers that still run -- after a
\* failed future.result() or a first KeyboardInterrupt -- a KeyboardInterrupt
\* is raised in the calling thread: Thread.join is left, the except clause of
\* download unlinks the file and the call returns; the workers run on
DlShutdownInterrupted ==
    /\ pc = "unwinding"
    /\ ~AllTerminal
    /\ pending' = "KeyboardInterrupt"
    /\ fileExists' = FALSE
    /\ file' = <<>>
    /\ output_path' = "None"
    /\ pc' = "left"
    /\ result' = "None"
    /\ UNCHANGED <<partVars, auxVars, coreOnly, use_ram_buffer, total_size,
                   max_connections, ranges, workers, chunk_buffers,
                   write_positions, write_lock, joinIdx, expected_hash,
                   file_hash, faults>>

NextShutdown == NextDirect \/ DlShutdownInterrupted

SpecShutdown == InitDl /\ [][NextShutdown]_vars

\* the download call is over: it has returned or raised
CallOver == pc \in {"fetched", "returned", "raised", "left"}

\* C39 (as claimed): a download call returns or raises only after every
\* worker task it started has terminated; no worker writes after the call
\* returned or after the failure cleanup unlinked the file.
\* The wait for the workers is the join of the executor's __exit__, which a
\* KeyboardInterrupt ends early; download catches it, unlinks and returns.
C39_CallEndsAfterWorkers == CallOver => AllTerminal

====
